---- MODULE Spec2Model ----
(***************************************************************************)
(* Negotiation session orchestrator: AdvancedSessionManager                *)
(* (backend/session_manager.py), AdvancedNegotiationEngine                 *)
(* (backend/negotiation_engine.py) and the user-side handlers of           *)
(* backend/main.py.                                                        *)
(*                                                                         *)
(* A text is a sequence of one-character strings, so that str.lower(),     *)
(* the `in` substring test, the rupee regular expression and the           *)
(* thousands-separator formatting are computed as Python computes them.    *)
(***************************************************************************)
EXTENDS Integers, Sequences, FiniteSets, Bags, TLC

\* ------------------------------------------------------------------------
\* Text primitives
\* ------------------------------------------------------------------------

\* Python None where a string is expected
None == "None"

\* an Optional[int]: <<>> is None, <<n>> is the integer n
NoInt == <<>>

SomeInt(n) == <<n>>

UpperChars == <<"A","B","C","D","E","F","G","H","I","J","K","L","M",
                "N","O","P","Q","R","S","T","U","V","W","X","Y","Z">>

LowerChars == <<"a","b","c","d","e","f","g","h","i","j","k","l","m",
                "n","o","p","q","r","s","t","u","v","w","x","y","z">>

DigitChars == <<"0","1","2","3","4","5","6","7","8","9">>

\* the lower-case letter of each upper-case letter
LowerOf == [c \in {UpperChars[i] : i \in 1..26} |->
               LowerChars[CHOOSE i \in 1..26 : UpperChars[i] = c]]

\* str.lower() on one character
LowerChar(c) == IF c \in DOMAIN LowerOf THEN LowerOf[c] ELSE c

IsDigit(c) == \E i \in 1..10 : DigitChars[i] = c

DigitVal(c) == (CHOOSE i \in 1..10 : DigitChars[i] = c) - 1

\* the class [\s,] of the price pattern
IsSep(c) == c \in {" ", ",", "\t", "\n", "\r"}

RECURSIVE JoinWith(_, _)
\* sep.join(parts)
JoinWith(sep, parts) ==
    IF Len(parts) = 0 THEN <<>>
    ELSE IF Len(parts) = 1 THEN parts[1]
    ELSE parts[1] \o sep \o JoinWith(sep, Tail(parts))

RECURSIVE DigitsOf(_)
\* str(n) for n >= 0
DigitsOf(n) ==
    IF n < 10 THEN <<DigitChars[n + 1]>>
    ELSE DigitsOf(n \div 10) \o <<DigitChars[(n % 10) + 1]>>

RECURSIVE GroupThousands(_)
GroupThousands(d) ==
    IF Len(d) <= 3 THEN d
    ELSE GroupThousands(SubSeq(d, 1, Len(d) - 3)) \o <<",">> \o SubSeq(d, Len(d) - 2, Len(d))

\* format(n, ",") for n >= 0, as in f"{n:,}"
FormatComma(n) == GroupThousands(DigitsOf(n))

RECURSIVE SkipSep(_, _)
\* first index >= i of s that is not in [\s,]
SkipSep(s, i) ==
    IF i <= Len(s) /\ IsSep(s[i]) THEN SkipSep(s, i + 1) ELSE i

RECURSIVE SkipDigits(_, _)
\* first index >= i of s that is not a digit
SkipDigits(s, i) ==
    IF i <= Len(s) /\ IsDigit(s[i]) THEN SkipDigits(s, i + 1) ELSE i

RECURSIVE NumberEnd(_, _)
\* s[i] is a digit; index just past the longest \d+(?:,\d+)* starting at i
NumberEnd(s, i) ==
    LET e == SkipDigits(s, i)
    IN  IF e + 1 <= Len(s) /\ s[e] = "," /\ IsDigit(s[e + 1])
        THEN NumberEnd(s, e + 1)
        ELSE e

RECURSIVE ParseInt(_, _)
\* int(p.replace(',', '')) accumulated left to right
ParseInt(p, acc) ==
    IF Len(p) = 0 THEN acc
    ELSE IF Head(p) = "," THEN ParseInt(Tail(p), acc)
    ELSE ParseInt(Tail(p), acc * 10 + DigitVal(Head(p)))

RECURSIVE FindPricesFrom(_, _)
\* the matches of the price pattern in s from index i on, left to right
FindPricesFrom(s, i) ==
    LET rupees == {r \in i..Len(s) : s[r] = "₹"}
    IN  IF rupees = {} THEN <<>>
        ELSE LET r == CHOOSE x \in rupees : \A y \in rupees : x <= y
                 j == SkipSep(s, r + 1)
             IN  IF j <= Len(s) /\ IsDigit(s[j])
                 THEN LET e == NumberEnd(s, j)
                      IN  <<ParseInt(SubSeq(s, j, e - 1), 0)>> \o FindPricesFrom(s, e)
                 ELSE FindPricesFrom(s, r + 1)

Min(a, b) == IF a <= b THEN a ELSE b

Max(a, b) == IF a >= b THEN a ELSE b

\* ConversationAnalyzer.flexibility_indicators['high']
flexibility_indicators_high ==
    << <<"n","e","g","o","t","i","a","t","e">>,
       <<"f","l","e","x","i","b","l","e">>,
       <<"c","o","n","s","i","d","e","r">>,
       <<"d","i","s","c","u","s","s">>,
       <<"m","a","y","b","e">>,
       <<"p","e","r","h","a","p","s">> >>

\* ConversationAnalyzer.flexibility_indicators['low']
flexibility_indicators_low ==
    << <<"f","i","r","m">>,
       <<"f","i","x","e","d">>,
       <<"f","i","n","a","l">>,
       <<"n","o","n","-","n","e","g","o","t","i","a","b","l","e">>,
       <<"m","i","n","i","m","u","m">>,
       <<"c","a","n","n","o","t">> >>

\* ConversationAnalyzer.urgency_indicators['high']
urgency_indicators_high ==
    << <<"u","r","g","e","n","t">>,
       <<"i","m","m","e","d","i","a","t","e","l","y">>,
       <<"t","o","d","a","y">>,
       <<"a","s","a","p">>,
       <<"q","u","i","c","k">> >>

\* ConversationAnalyzer.urgency_indicators['low']
urgency_indicators_low ==
    << <<"w","h","e","n","e","v","e","r">>,
       <<"n","o"," ","r","u","s","h">>,
       <<"f","l","e","x","i","b","l","e">>,
       <<"a","n","y","t","i","m","e">> >>

\* objection_patterns['price_too_low']
price_too_low_keywords ==
    << <<"t","o","o"," ","l","o","w">>,
       <<"n","o","t"," ","e","n","o","u","g","h">>,
       <<"c","a","n","n","o","t"," ","a","c","c","e","p","t">>,
       <<"m","i","n","i","m","u","m">> >>

\* objection_patterns['condition_concerns']
condition_concerns_keywords ==
    << <<"c","o","n","d","i","t","i","o","n">>,
       <<"w","e","a","r">>,
       <<"d","a","m","a","g","e">>,
       <<"i","s","s","u","e">> >>

\* objection_patterns['timing_issues']
timing_issues_keywords ==
    << <<"t","i","m","e">>,
       <<"w","h","e","n">>,
       <<"s","c","h","e","d","u","l","e">>,
       <<"a","v","a","i","l","a","b","i","l","i","t","y">> >>

\* objection_patterns['trust_concerns']
trust_concerns_keywords ==
    << <<"t","r","u","s","t">>,
       <<"v","e","r","i","f","y">>,
       <<"p","r","o","o","f">>,
       <<"g","u","a","r","a","n","t","e","e">> >>

\* closing_keywords of _determine_negotiation_phase
closing_keywords ==
    << <<"d","e","a","l">>,
       <<"f","i","n","a","l">>,
       <<"a","c","c","e","p","t">>,
       <<"a","g","r","e","e">>,
       <<"d","o","n","e">>,
       <<"s","o","l","d">> >>

\* phrases that raise InterventionTrigger.SELLER_REQUEST
seller_request_phrases ==
    << <<"s","p","e","a","k"," ","t","o"," ","y","o","u"," ","d","i","r","e","c","t","l","y">>,
       <<"c","a","l","l"," ","y","o","u">>,
       <<"t","a","l","k"," ","t","o"," ","o","w","n","e","r">>,
       <<"r","e","a","l"," ","p","e","r","s","o","n">> >>

\* phrases that raise InterventionTrigger.COMPLEX_TERMS
complex_terms_phrases ==
    << <<"w","a","r","r","a","n","t","y">>,
       <<"r","e","t","u","r","n"," ","p","o","l","i","c","y">>,
       <<"l","e","g","a","l">>,
       <<"c","o","n","t","r","a","c","t">>,
       <<"d","o","c","u","m","e","n","t","a","t","i","o","n">> >>

\* phrases that raise InterventionTrigger.TECHNICAL_ISSUE
technical_issue_phrases ==
    << <<"n","o","t"," ","w","o","r","k","i","n","g">>,
       <<"e","r","r","o","r">>,
       <<"p","r","o","b","l","e","m"," ","w","i","t","h">>,
       <<"t","e","c","h","n","i","c","a","l"," ","i","s","s","u","e">> >>

\* words _extract_final_agreed_price looks for in an agent message
agreed_price_words ==
    << <<"a","c","c","e","p","t">>,
       <<"d","e","a","l">>,
       <<"a","g","r","e","e">> >>

\* single keywords the analyzer and the phase rule look for
kw(word) ==
    CASE word = "firm" ->
        <<"f","i","r","m">>
      [] word = "final" ->
        <<"f","i","n","a","l">>
      [] word = "non-negotiable" ->
        <<"n","o","n","-","n","e","g","o","t","i","a","b","l","e">>
      [] word = "flexible" ->
        <<"f","l","e","x","i","b","l","e">>
      [] word = "negotiate" ->
        <<"n","e","g","o","t","i","a","t","e">>
      [] word = "quick" ->
        <<"q","u","i","c","k">>
      [] word = "urgent" ->
        <<"u","r","g","e","n","t">>
      [] word = "price" ->
        <<"p","r","i","c","e">>
    \* the currency sign _determine_negotiation_phase looks for
      [] word = "₹" ->
        <<"₹">>
\* seller text: Scenario A
seller_final_11000 ==
    <<"M","y"," ","f","i","n","a","l"," ","p","r","i","c","e"," ","i","s"," ","1","1","0","0",
      "0">>

\* seller text: Scenario B
seller_maybe_9000 ==
    <<"m","a","y","b","e"," ","I"," ","c","a","n"," ","c","o","n","s","i","d","e","r"," ","9",
      "0","0","0">>

\* seller text: Scenario C
seller_okay_deal ==
    <<"o","k","a","y"," ","d","e","a","l">>

\* seller text: Scenario D
seller_speak_directly ==
    <<"I","'","d"," ","l","i","k","e"," ","t","o"," ","s","p","e","a","k"," ","t","o"," ","y",
      "o","u"," ","d","i","r","e","c","t","l","y">>

\* seller text: a rupee price below the target
seller_low_7000 ==
    <<"I"," ","c","a","n"," ","d","o"," ","₹","7",",","0","0","0">>

\* seller text: a rupee price between target and budget, flexible wording
seller_flex_9000 ==
    <<"m","a","y","b","e"," ","₹","9",",","0","0","0",","," ","w","e"," ","c","a","n"," ","n",
      "e","g","o","t","i","a","t","e">>

\* seller text: a rupee price above the budget, firm wording
seller_min_11000 ==
    <<"₹","1","1",",","0","0","0"," ","i","s"," ","m","y"," ","m","i","n","i","m","u","m">>

\* seller text: a rupee price between target and budget, plain wording
seller_plain_9000 ==
    <<"I"," ","c","a","n"," ","d","o"," ","₹","9",",","0","0","0">>

PAUSE_RESPONSE ==
    <<"I"," ","u","n","d","e","r","s","t","a","n","d","."," ","L","e","t"," ","m","e"," ","t",
      "h","i","n","k"," ","a","b","o","u","t"," ","y","o","u","r"," ","o","f","f","e","r"," ",
      "a","n","d"," ","g","e","t"," ","b","a","c","k"," ","t","o"," ","y","o","u",".">>

txt_walkaway(amount) ==
    <<"I"," ","u","n","d","e","r","s","t","a","n","d"," ","y","o","u","r"," ","p","o","s","i",
      "t","i","o","n",","," ","b","u","t"," ","₹">>
    \o FormatComma(amount)
    \o
    <<" ","i","s"," ","r","e","a","l","l","y"," ","t","h","e"," ","m","a","x","i","m","u","m",
      " ","I"," ","c","a","n"," ","g","o","."," ","I","f"," ","y","o","u"," ","c","h","a","n",
      "g","e"," ","y","o","u","r"," ","m","i","n","d",","," ","p","l","e","a","s","e"," ","l",
      "e","t"," ","m","e"," ","k","n","o","w","."," ","O","t","h","e","r","w","i","s","e",",",
      " ","I","'","l","l"," ","h","a","v","e"," ","t","o"," ","c","o","n","s","i","d","e","r",
      " ","o","t","h","e","r"," ","o","p","t","i","o","n","s","."," ","T","h","a","n","k"," ",
      "y","o","u"," ","f","o","r"," ","y","o","u","r"," ","t","i","m","e",".">>

\* acknowledgements of _generate_enhanced_tactical_response
txt_ack(template) ==
    CASE template = "ack_response" ->
        <<"T","h","a","n","k"," ","y","o","u"," ","f","o","r"," ","y","o","u","r"," ","r","e","s",
          "p","o","n","s","e",".">>
      [] template = "ack_interest" ->
        <<"I"," ","a","p","p","r","e","c","i","a","t","e"," ","y","o","u"," ","c","o","n","s","i",
          "d","e","r","i","n","g"," ","m","y"," ","i","n","t","e","r","e","s","t",".">>

txt_best_offer ==
    <<"T","h","i","s"," ","i","s"," ","m","y"," ","b","e","s","t"," ","o","f","f","e","r",".",
      " ","P","l","e","a","s","e"," ","l","e","t"," ","m","e"," ","k","n","o","w"," ","i","f",
      " ","t","h","i","s"," ","w","o","r","k","s"," ","f","o","r"," ","y","o","u",".">>

\* the f-strings of _format_offer_with_tactic
txt_format_offer(template, amount) ==
    CASE template = "anchor_market" ->
        <<"B","a","s","e","d"," ","o","n"," ","m","a","r","k","e","t"," ","r","e","s","e","a","r",
          "c","h",","," ","I"," ","c","a","n"," ","o","f","f","e","r"," ","₹">>
        \o FormatComma(amount)
        \o
        <<"."," ","T","h","i","s"," ","r","e","f","l","e","c","t","s"," ","t","h","e"," ","c","u",
          "r","r","e","n","t"," ","m","a","r","k","e","t"," ","v","a","l","u","e"," ","f","o","r",
          " ","s","i","m","i","l","a","r"," ","i","t","e","m","s",".">>
      [] template = "anchor" ->
        <<"C","o","n","s","i","d","e","r","i","n","g"," ","a","l","l"," ","f","a","c","t","o","r",
          "s",","," ","I"," ","c","a","n"," ","o","f","f","e","r"," ","₹">>
        \o FormatComma(amount)
        \o
        <<".">>
      [] template = "urgency" ->
        <<"I","'","m"," ","r","e","a","d","y"," ","t","o"," ","p","r","o","c","e","e","d"," ","i",
          "m","m","e","d","i","a","t","e","l","y"," ","w","i","t","h"," ","₹">>
        \o FormatComma(amount)
        \o
        <<" ","i","f"," ","w","e"," ","c","a","n"," ","a","g","r","e","e"," ","t","o","d","a","y",
          ".">>
      [] template = "authority_cond" ->
        <<"G","i","v","e","n"," ","t","h","e"," ","c","o","n","d","i","t","i","o","n"," ","f","a",
          "c","t","o","r","s",","," ","m","y"," ","b","u","d","g","e","t"," ","a","l","l","o","w",
          "s"," ","f","o","r"," ","₹">>
        \o FormatComma(amount)
        \o
        <<".">>
      [] template = "authority" ->
        <<"B","a","s","e","d"," ","o","n"," ","m","y"," ","a","s","s","e","s","s","m","e","n","t",
          ","," ","₹">>
        \o FormatComma(amount)
        \o
        <<" ","w","o","u","l","d"," ","b","e"," ","f","a","i","r",".">>
      [] template = "default_offer" ->
        <<"I"," ","c","a","n"," ","o","f","f","e","r"," ","₹">>
        \o FormatComma(amount)
        \o
        <<"."," ","W","h","a","t"," ","d","o"," ","y","o","u"," ","t","h","i","n","k","?">>

\* ResponseGenerator.tactic_templates: the templates the offers are formatted with,
\* named by tactic and position in the list
tactic_templates(template, amount) ==
    CASE template = "scarcity1" ->
        <<"I","'","m"," ","l","o","o","k","i","n","g"," ","a","t"," ","a"," ","f","e","w"," ","s",
          "i","m","i","l","a","r"," ","l","i","s","t","i","n","g","s","."," ","I","f"," ","w","e",
          " ","c","a","n"," ","a","g","r","e","e"," ","o","n"," ","₹">>
        \o FormatComma(amount)
        \o
        <<","," ","I"," ","c","a","n"," ","d","e","c","i","d","e"," ","r","i","g","h","t"," ","a",
          "w","a","y",".">>
      [] template = "scarcity2" ->
        <<"I"," ","h","a","v","e"," ","a","n","o","t","h","e","r"," ","o","p","t","i","o","n",",",
          " ","b","u","t"," ","I"," ","p","r","e","f","e","r"," ","y","o","u","r","s","."," ","C",
          "a","n"," ","y","o","u"," ","c","o","n","s","i","d","e","r"," ","₹">>
        \o FormatComma(amount)
        \o
        <<"?">>
      [] template = "reciprocity1" ->
        <<"I"," ","a","p","p","r","e","c","i","a","t","e"," ","y","o","u","r"," ","f","l","e","x",
          "i","b","i","l","i","t","y","."," ","M","e","e","t","i","n","g"," ","m","e"," ","a","t",
          " ","₹">>
        \o FormatComma(amount)
        \o
        <<" ","w","o","u","l","d"," ","r","e","a","l","l","y"," ","h","e","l","p"," ","m","y"," ",
          "b","u","d","g","e","t",".">>
      [] template = "reciprocity2" ->
        <<"S","i","n","c","e"," ","y","o","u","'","r","e"," ","b","e","i","n","g"," ","r","e","a",
          "s","o","n","a","b","l","e",","," ","I"," ","c","a","n"," ","s","t","r","e","t","c","h",
          " ","t","o"," ","₹">>
        \o FormatComma(amount)
        \o
        <<"."," ","T","h","a","t","'","s"," ","r","e","a","l","l","y"," ","m","y"," ","b","e","s",
          "t"," ","o","f","f","e","r",".">>
      [] template = "social1" ->
        <<"S","i","m","i","l","a","r"," ","i","t","e","m","s"," ","i","n"," ","t","h","i","s"," ",
          "c","o","n","d","i","t","i","o","n"," ","u","s","u","a","l","l","y"," ","s","e","l","l",
          " ","f","o","r"," ","a","r","o","u","n","d"," ","₹">>
        \o FormatComma(amount)
        \o
        <<"."," ","M","a","r","k","e","t"," ","r","e","s","e","a","r","c","h"," ","s","h","o","w",
          "s"," ","t","h","i","s"," ","i","s"," ","f","a","i","r",".">>
      [] template = "social2" ->
        <<"B","a","s","e","d"," ","o","n"," ","w","h","a","t"," ","o","t","h","e","r","s"," ","a",
          "r","e"," ","p","a","y","i","n","g"," ","f","o","r"," ","s","i","m","i","l","a","r"," ",
          "p","r","o","d","u","c","t","s",","," ","₹">>
        \o FormatComma(amount)
        \o
        <<" ","s","e","e","m","s"," ","r","i","g","h","t",".">>
      [] template = "bundling2" ->
        <<"I"," ","c","a","n"," ","d","o"," ","₹">>
        \o FormatComma(amount)
        \o
        <<" ","i","f"," ","y","o","u"," ","c","a","n"," ","h","e","l","p"," ","w","i","t","h"," ",
          "d","e","l","i","v","e","r","y","/","w","a","r","r","a","n","t","y","/","a","c","c","e",
          "s","s","o","r","i","e","s",".">>
      [] template = "commitment1" ->
        <<"I","f"," ","y","o","u"," ","a","c","c","e","p","t"," ","₹">>
        \o FormatComma(amount)
        \o
        <<","," ","I","'","m"," ","r","e","a","d","y"," ","t","o"," ","c","l","o","s","e"," ","t",
          "h","e"," ","d","e","a","l"," ","r","i","g","h","t"," ","n","o","w",".">>
      [] template = "commitment2" ->
        <<"₹">>
        \o FormatComma(amount)
        \o
        <<" ","a","n","d"," ","w","e"," ","h","a","v","e"," ","a"," ","d","e","a","l","."," ","I",
          "'","l","l"," ","b","r","i","n","g"," ","c","a","s","h"," ","f","o","r"," ","i","m","m",
          "e","d","i","a","t","e"," ","p","i","c","k","u","p",".">>

\* talking_points['closing_arguments'] of the strategy
txt_closing_arguments(template, amount) ==
    CASE template = "closing_arg1" ->
        <<"I"," ","c","a","n"," ","o","f","f","e","r"," ","₹">>
        \o FormatComma(amount)
        \o
        <<" ","f","o","r"," ","a","n"," ","i","m","m","e","d","i","a","t","e"," ","p","u","r","c",
          "h","a","s","e">>
      [] template = "closing_arg2" ->
        <<"T","h","i","s"," ","i","s"," ","a"," ","f","a","i","r"," ","o","f","f","e","r"," ","c",
          "o","n","s","i","d","e","r","i","n","g"," ","t","h","e"," ","c","u","r","r","e","n","t",
          " ","m","a","r","k","e","t"," ","c","o","n","d","i","t","i","o","n","s">>
      [] template = "closing_arg3" ->
        <<"L","e","t"," ","m","e"," ","k","n","o","w"," ","i","f"," ","t","h","i","s"," ","w","o",
          "r","k","s"," ","f","o","r"," ","y","o","u">>

\* handoff_messages of _trigger_human_handoff, by reason
txt_handoff(template) ==
    CASE template = "handoff_seller_request" ->
        <<"I"," ","u","n","d","e","r","s","t","a","n","d"," ","y","o","u","'","d"," ","l","i","k",
          "e"," ","t","o"," ","s","p","e","a","k"," ","d","i","r","e","c","t","l","y","."," ","L",
          "e","t"," ","m","e"," ","c","o","n","n","e","c","t"," ","y","o","u"," ","w","i","t","h",
          " ","m","y"," ","c","o","l","l","e","a","g","u","e"," ","w","h","o"," ","c","a","n"," ",
          "a","s","s","i","s","t"," ","y","o","u"," ","b","e","t","t","e","r",".">>
      [] template = "handoff_complex_terms" ->
        <<"T","h","e","s","e"," ","a","r","e"," ","i","m","p","o","r","t","a","n","t"," ","d","e",
          "t","a","i","l","s"," ","t","h","a","t"," ","n","e","e","d"," ","c","a","r","e","f","u",
          "l"," ","c","o","n","s","i","d","e","r","a","t","i","o","n","."," ","L","e","t"," ","m",
          "e"," ","h","a","v","e"," ","s","o","m","e","o","n","e"," ","w","i","t","h"," ","m","o",
          "r","e"," ","e","x","p","e","r","t","i","s","e"," ","h","e","l","p"," ","u","s",".">>
      [] template = "handoff_deadlock" ->
        <<"L","e","t"," ","m","e"," ","b","r","i","n","g"," ","i","n"," ","a"," ","c","o","l","l",
          "e","a","g","u","e"," ","w","h","o"," ","m","i","g","h","t"," ","h","a","v","e"," ","a",
          " ","f","r","e","s","h"," ","p","e","r","s","p","e","c","t","i","v","e"," ","o","n"," ",
          "t","h","i","s"," ","n","e","g","o","t","i","a","t","i","o","n",".">>
      [] template = "handoff_technical_issue" ->
        <<"I"," ","w","a","n","t"," ","t","o"," ","m","a","k","e"," ","s","u","r","e"," ","w","e",
          " ","a","d","d","r","e","s","s"," ","y","o","u","r"," ","c","o","n","c","e","r","n","s",
          " ","p","r","o","p","e","r","l","y","."," ","L","e","t"," ","m","e"," ","c","o","n","n",
          "e","c","t"," ","y","o","u"," ","w","i","t","h"," ","s","o","m","e","o","n","e"," ","w",
          "h","o"," ","c","a","n"," ","h","e","l","p",".">>

txt_session_error(error_message) ==
    <<"S","e","s","s","i","o","n"," ","e","r","r","o","r",":"," ">>
    \o error_message

\* str(e) of the exceptions process_seller_response catches
txt_err(template) ==
    CASE template = "error_start_time" ->
        <<"'","s","t","a","r","t","_","t","i","m","e","'">>
      [] template = "error_response" ->
        <<"'","r","e","s","p","o","n","s","e","'">>

\* talking_points['opening_points'] of the strategy
txt_opening_points(template, amount) ==
    CASE template = "opening_point1" ->
        <<"I","'","m"," ","i","n","t","e","r","e","s","t","e","d"," ","i","n"," ","t","h","i","s",
          " ","E","l","e","c","t","r","o","n","i","c","s">>
      [] template = "opening_point2" ->
        <<"I","'","v","e"," ","b","e","e","n"," ","r","e","s","e","a","r","c","h","i","n","g"," ",
          "s","i","m","i","l","a","r"," ","p","r","o","d","u","c","t","s"," ","i","n"," ","t","h",
          "e"," ","m","a","r","k","e","t">>
      [] template = "opening_point3" ->
        <<"M","y"," ","b","u","d","g","e","t"," ","i","s"," ","a","r","o","u","n","d"," ","₹">>
        \o FormatComma(amount)

txt_explore_more ==
    <<"C","o","u","l","d"," ","y","o","u"," ","t","e","l","l"," ","m","e"," ","m","o","r","e",
      " ","a","b","o","u","t"," ","i","t","s"," ","c","o","n","d","i","t","i","o","n"," ","a",
      "n","d"," ","i","f"," ","t","h","e","r","e","'","s"," ","a","n","y"," ","f","l","e","x",
      "i","b","i","l","i","t","y"," ","i","n"," ","t","h","e"," ","p","r","i","c","e","?">>

\* reply texts of the LangChain agent
txt_llm(template, amount) ==
    CASE template = "llm_offer" ->
        <<"L","e","t"," ","m","e"," ","k","n","o","w"," ","y","o","u","r"," ","t","h","o","u","g",
          "h","t","s"," ","o","n"," ","₹">>
        \o FormatComma(amount)
        \o
        <<"."," ","I"," ","b","e","l","i","e","v","e"," ","i","t","'","s"," ","a"," ","f","a","i",
          "r"," ","p","r","i","c","e"," ","g","i","v","e","n"," ","c","u","r","r","e","n","t"," ",
          "m","a","r","k","e","t"," ","c","o","n","d","i","t","i","o","n","s",".">>
      [] template = "llm_close" ->
        <<"E","x","c","e","l","l","e","n","t","!"," ","F","o","r"," ","₹">>
        \o FormatComma(amount)
        \o
        <<","," ","I","'","m"," ","p","r","e","p","a","r","e","d"," ","t","o"," ","c","l","o","s",
          "e"," ","t","h","i","s"," ","d","e","a","l"," ","r","i","g","h","t"," ","n","o","w",".",
          " ","W","h","e","n"," ","c","a","n"," ","I"," ","p","i","c","k"," ","u","p","?">>

\* ------------------------------------------------------------------------
\* Message contents
\*
\* The content of a ChatMessage is kept as a sequence of parts joined by one
\* space (the " ".join(response_parts) of the response generator); a part is
\* a fixed string or an f-string with one amount formatted with "{:,}".
\* ------------------------------------------------------------------------

Part(id, n) == [id |-> id, n |-> n]

PartText(p) ==
    CASE p.id = "seller_final_11000"    -> seller_final_11000
      [] p.id = "seller_maybe_9000"     -> seller_maybe_9000
      [] p.id = "seller_okay_deal"      -> seller_okay_deal
      [] p.id = "seller_speak_directly" -> seller_speak_directly
      [] p.id = "seller_low_7000"       -> seller_low_7000
      [] p.id = "seller_flex_9000"      -> seller_flex_9000
      [] p.id = "seller_min_11000"      -> seller_min_11000
      [] p.id = "seller_plain_9000"     -> seller_plain_9000
      [] p.id = "empty"                 -> <<>>
      [] p.id = "pause"                 -> PAUSE_RESPONSE
      [] p.id = "walkaway"              -> txt_walkaway(p.n)
      [] p.id = "ack_response"          -> txt_ack(p.id)
      [] p.id = "ack_interest"          -> txt_ack(p.id)
      [] p.id = "best_offer"            -> txt_best_offer
      [] p.id = "anchor_market"         -> txt_format_offer(p.id, p.n)
      [] p.id = "anchor"                -> txt_format_offer(p.id, p.n)
      [] p.id = "urgency"               -> txt_format_offer(p.id, p.n)
      [] p.id = "authority_cond"        -> txt_format_offer(p.id, p.n)
      [] p.id = "authority"             -> txt_format_offer(p.id, p.n)
      [] p.id = "scarcity1"             -> tactic_templates(p.id, p.n)
      [] p.id = "scarcity2"             -> tactic_templates(p.id, p.n)
      [] p.id = "reciprocity1"          -> tactic_templates(p.id, p.n)
      [] p.id = "reciprocity2"          -> tactic_templates(p.id, p.n)
      [] p.id = "social1"               -> tactic_templates(p.id, p.n)
      [] p.id = "social2"               -> tactic_templates(p.id, p.n)
      [] p.id = "bundling2"             -> tactic_templates(p.id, p.n)
      [] p.id = "commitment1"           -> tactic_templates(p.id, p.n)
      [] p.id = "commitment2"           -> tactic_templates(p.id, p.n)
      [] p.id = "default_offer"         -> txt_format_offer(p.id, p.n)
      [] p.id = "closing_arg1"          -> txt_closing_arguments(p.id, p.n)
      [] p.id = "closing_arg2"          -> txt_closing_arguments(p.id, p.n)
      [] p.id = "closing_arg3"          -> txt_closing_arguments(p.id, p.n)
      [] p.id = "opening_point1"        -> txt_opening_points(p.id, p.n)
      [] p.id = "opening_point2"        -> txt_opening_points(p.id, p.n)
      [] p.id = "opening_point3"        -> txt_opening_points(p.id, p.n)
      [] p.id = "explore_more"          -> txt_explore_more
      [] p.id = "handoff_seller_request"  -> txt_handoff(p.id)
      [] p.id = "handoff_complex_terms"   -> txt_handoff(p.id)
      [] p.id = "handoff_deadlock"        -> txt_handoff(p.id)
      [] p.id = "handoff_technical_issue" -> txt_handoff(p.id)
      [] p.id = "error_start_time"      -> txt_session_error(txt_err(p.id))
      [] p.id = "error_response"        -> txt_session_error(txt_err(p.id))
      [] p.id = "llm_offer"             -> txt_llm(p.id, p.n)
      [] p.id = "llm_close"             -> txt_llm(p.id, p.n)

\* ------------------------------------------------------------------------
\* Bounds and inputs
\* ------------------------------------------------------------------------

\* number of handler coroutines that can be in flight at once
MaxTasks == 2

\* a handler is started only while the log can still take its messages
MaxMessages == 5

\* the same bound for the sessions that begin late in a long conversation
LateMessages == 22

\* the seller messages already answered when such a session is picked up
LateTurns == {8, 9}

\* the ids str(uuid.uuid4()) hands out
SessionIds == {"s1"}

\* NegotiationParams of the created sessions (target_price, max_budget, approach)
ParamsChoices == {[target_price |-> 8000, max_budget |-> 10000, approach |-> "diplomatic"]}

\* bodies of POST requests that ask for a negotiation: the well-formed ones,
\* one with target_price = 0 and one with max_budget < target_price
Requests == ParamsChoices
            \cup {[target_price |-> 0, max_budget |-> 10000, approach |-> "diplomatic"],
                  [target_price |-> 10000, max_budget |-> 8000, approach |-> "diplomatic"]}

\* Product.price of the scraped listing; its Product.category is "electronics"
ProductPrices == {12000}

\* texts a seller sends
SellerTexts == {"seller_speak_directly", "seller_low_7000", "seller_flex_9000",
                "seller_min_11000"}

\* texts the seller sends in Scenarios A, B and C
ScenarioTexts == {"seller_final_11000", "seller_maybe_9000", "seller_okay_deal"}

\* what an end_session request of the user carries: message_data['outcome'] and
\* message_data['final_price'] (absent keys give the defaults)
EndRequests == {[outcome |-> "user_cancelled", final_price |-> NoInt],
                [outcome |-> "user_cancelled", final_price |-> SomeInt(9000)]}

\* message_data['content'] of a manual_override message of the user
OverrideTexts == {"best_offer"}

\* texts the LangChain agent answers with
AgentTexts(params) == {<<Part("llm_offer", params.target_price)>>}

\* ------------------------------------------------------------------------
\* Strings
\*
\* A string is a sequence of characters.  The handlers read three things off
\* the content of a message: its length, the prices the price pattern finds
\* in it, and which of the keywords its lowercase form contains.  Read
\* computes them from the characters, once for each content the sessions of
\* this model hold; the analyzers work on what Read gives.
\* ------------------------------------------------------------------------

SeqToSet(s) == {s[i] : i \in 1..Len(s)}

\* ChatMessage.content as a string, part by part
ExpandText(content) == JoinWith(<<" ">>, [i \in 1..Len(content) |-> PartText(content[i])])

\* str.lower()
lower(s) == <<>> \o [i \in 1..Len(s) |-> LowerChar(s[i])]

\* every keyword and phrase the code looks for in a string
AllKeywords ==
    SeqToSet(flexibility_indicators_high) \cup SeqToSet(flexibility_indicators_low)
    \cup SeqToSet(urgency_indicators_high) \cup SeqToSet(urgency_indicators_low)
    \cup SeqToSet(price_too_low_keywords) \cup SeqToSet(condition_concerns_keywords)
    \cup SeqToSet(timing_issues_keywords) \cup SeqToSet(trust_concerns_keywords)
    \cup SeqToSet(closing_keywords) \cup SeqToSet(seller_request_phrases)
    \cup SeqToSet(complex_terms_phrases) \cup SeqToSet(technical_issue_phrases)
    \cup SeqToSet(agreed_price_words)
    \cup {kw("firm"), kw("final"), kw("non-negotiable"), kw("flexible"), kw("negotiate"), kw("quick"),
          kw("urgent"), kw("price"), kw("₹")}

\* Python `k in s` for strings, position by position
ContainsScan(s, k) ==
    \E i \in 1..(Len(s) - Len(k) + 1) :
        \A j \in 1..Len(k) : s[i + j - 1] = k[j]

\* the string s as the handlers read it; no keyword has an uppercase letter,
\* and "₹" has no lowercase form, so `k in s.lower()` decides `'₹' in s` too
Lex(s) ==
    [len |-> Len(s),
     \* [int(p.replace(',', '')) for p in re.findall(r'₹[\s,]*(\d+(?:,\d+)*)', s)]
     prices |-> FindPricesFrom(s, 1),
     keywords |-> {k \in AllKeywords : ContainsScan(lower(s), k)}]

\* the contents the sessions of this model hold
KnownContents ==
    {<<Part(m, 0)>> : m \in SellerTexts \cup ScenarioTexts \cup OverrideTexts \cup {"empty"}}
    \cup UNION {AgentTexts(params) : params \in ParamsChoices}
    \cup {<<Part("walkaway", params.max_budget)>> : params \in ParamsChoices}
    \cup {<<Part("pause", 0)>>,
          <<Part("ack_interest", 0), Part("anchor", 0), Part("best_offer", 0)>>,
          <<Part("ack_interest", 0), Part("reciprocity1", 0), Part("best_offer", 0)>>,
          <<Part("ack_interest", 0), Part("reciprocity2", 0), Part("best_offer", 0)>>,
          <<Part("handoff_seller_request", 0)>>, <<Part("handoff_complex_terms", 0)>>,
          <<Part("handoff_deadlock", 0)>>, <<Part("handoff_technical_issue", 0)>>,
          <<Part("error_start_time", 0)>>}

LexOf == [content \in KnownContents |-> Lex(ExpandText(content))]

\* ChatMessage.content as the handlers read it
Read(content) ==
    IF content \in DOMAIN LexOf THEN LexOf[content] ELSE Lex(ExpandText(content))

\* a list of ChatMessage with the contents read
ReadAll(messages) ==
    [i \in 1..Len(messages) |->
        [sender |-> messages[i].sender, content |-> Read(messages[i].content)]]

\* Python `k in s.lower()` for a keyword k
Contains(s, k) == k \in s.keywords

\* any(k in s for k in ks)
AnyIn(ks, s) == \E i \in 1..Len(ks) : Contains(s, ks[i])

\* sum(1 for k in ks if k in s)
CountIn(ks, s) == Cardinality({i \in 1..Len(ks) : Contains(s, ks[i])})

\* the last k elements of a list, list[-k:]
LastN(list, k) == SubSeq(list, Max(1, Len(list) - k + 1), Len(list))

\* dict.get(key, default)
DictGet(d, key, default) == IF key \in DOMAIN d THEN d[key] ELSE default

RECURSIVE Flatten(_)
\* concatenation of a list of lists
Flatten(ls) == IF Len(ls) = 0 THEN <<>> ELSE Head(ls) \o Flatten(Tail(ls))

RECURSIVE SumSeq(_)
SumSeq(ns) == IF Len(ns) = 0 THEN 0 ELSE Head(ns) + SumSeq(Tail(ns))

\* the messages of a list with the given sender, in order
BySender(msgs, who) == SelectSeq(msgs, LAMBDA msg : msg.sender = who)

\* ------------------------------------------------------------------------
\* ConversationAnalyzer
\* ------------------------------------------------------------------------

\* Scores and confidences are kept in hundredths.  0.5 + 0.2*h - 0.3*l is
\* evaluated in IEEE-754 doubles, which for some (h, l) leaves the result
\* above or below the double of the decimal value (0.9 - 0.3 is
\* 0.6000000000000001 and 0.7 - 0.3 is 0.39999999999999997); the residue is
\* kept as one unit so that the comparisons with 0.2, 0.6 and 0.7 decide as the
\* code does.
FloatResidue(h, l) ==
    IF <<h, l>> \in {<<1,1>>, <<1,2>>} THEN -1
    ELSE IF <<h, l>> \in {<<2,1>>, <<2,2>>, <<2,3>>, <<3,2>>, <<3,3>>, <<4,2>>, <<4,3>>,
                          <<4,4>>, <<5,3>>, <<5,4>>, <<6,3>>, <<6,4>>, <<6,5>>} THEN 1
    ELSE 0

_count_price_concessions(chat_history) == 0

_assess_flexibility(message, chat_history) ==
    LET high_flex_count == CountIn(flexibility_indicators_high, message)
        low_flex_count  == CountIn(flexibility_indicators_low, message)
        price_concessions == _count_price_concessions(chat_history)
        base_score == 50 + 20 * high_flex_count - 30 * low_flex_count
                         + FloatResidue(high_flex_count, low_flex_count)
                         + 10 * price_concessions
    IN  Max(0, Min(100, base_score))

_detect_urgency(message) ==
    IF CountIn(urgency_indicators_high, message) > 0 THEN "high"
    ELSE IF CountIn(urgency_indicators_low, message) > 0 THEN "low"
    ELSE "medium"

_infer_personality(message, chat_history) ==
    LET seller_msgs == BySender(chat_history, "seller")
        total == SumSeq([i \in 1..Len(seller_msgs) |-> seller_msgs[i].content.len])
        cnt   == Max(1, Len(seller_msgs))
    IN  IF Contains(message, kw("firm")) \/ Contains(message, kw("final"))
           \/ Contains(message, kw("non-negotiable")) THEN "firm"
        ELSE IF Contains(message, kw("flexible")) \/ Contains(message, kw("negotiate")) THEN "flexible"
        ELSE IF Contains(message, kw("quick")) \/ Contains(message, kw("urgent"))
                \/ total < 50 * cnt THEN "eager"
        ELSE IF total > 150 * cnt THEN "hesitant"
        ELSE "flexible"

\* the trend of current_price against the latest earlier seller price
PriceTrend(current_price, previous_prices) ==
    IF Len(previous_prices) > 0 /\ current_price < previous_prices[Len(previous_prices)]
    THEN "decreasing"
    ELSE IF Len(previous_prices) > 0 /\ current_price > previous_prices[Len(previous_prices)]
    THEN "increasing"
    ELSE "stable"

_analyze_price_movement(message, chat_history) ==
    LET prices == message.prices
        seller_msgs == BySender(chat_history, "seller")
    IN  IF Len(prices) > 0
        THEN [current_price |-> SomeInt(prices[Len(prices)]),
              previous_prices |->
                  Flatten([i \in 1..Len(seller_msgs) |-> seller_msgs[i].content.prices]),
              trend |-> PriceTrend(prices[Len(prices)],
                  Flatten([i \in 1..Len(seller_msgs) |-> seller_msgs[i].content.prices]))]
        ELSE [current_price |-> NoInt, previous_prices |-> <<>>, trend |-> "stable"]

_identify_objections(message) ==
    (IF AnyIn(price_too_low_keywords, message) THEN {"price_too_low"} ELSE {})
    \cup (IF AnyIn(condition_concerns_keywords, message) THEN {"condition_concerns"} ELSE {})
    \cup (IF AnyIn(timing_issues_keywords, message) THEN {"timing_issues"} ELSE {})
    \cup (IF AnyIn(trust_concerns_keywords, message) THEN {"trust_concerns"} ELSE {})

\* message is the seller's text as read; the keyword tests are those of
\* message.lower()
analyze_seller_message(message, chat_history) ==
    [flexibility_score |-> _assess_flexibility(message, chat_history),
     urgency_level     |-> _detect_urgency(message),
     personality       |-> _infer_personality(message, chat_history),
     price_analysis    |-> _analyze_price_movement(message, chat_history),
     objections        |-> _identify_objections(message)]

\* ------------------------------------------------------------------------
\* AdvancedNegotiationEngine._determine_negotiation_phase
\* ------------------------------------------------------------------------

\* a closing keyword has no space, so it lies in ' '.join(recent_messages)
\* exactly when it lies in one of them
_determine_negotiation_phase(chat_history, seller_analysis) ==
    LET message_count == Len(chat_history)
        recent_messages == LastN(chat_history, 3)
    IN  IF message_count <= 2 THEN "opening"
        ELSE IF \E k \in 1..Len(closing_keywords), i \in 1..Len(recent_messages) :
                   Contains(recent_messages[i].content, closing_keywords[k]) THEN "closing"
        ELSE IF DictGet(seller_analysis, "flexibility_score", 50) < 20 /\ message_count > 6
             THEN "deadlock"
        ELSE IF /\ \E i \in 1..Len(recent_messages) :
                      \/ Contains(recent_messages[i].content, kw("price"))
                      \/ Contains(recent_messages[i].content, kw("₹"))
                /\ message_count > 3 THEN "bargaining"
        ELSE "exploration"

\* ------------------------------------------------------------------------
\* DecisionEngine
\* ------------------------------------------------------------------------

\* the decision dict; offer is NoInt when the dict has no key 'offer'
Decision(action, offer, confidence) ==
    [action |-> action, offer |-> offer, confidence |-> confidence]

\* the nearest tenth of a score in hundredths (drops the float residue)
Tenths(score) == (score + 5) \div 10

\* int(price_gap * factor * flexibility) with factor in tenths
IntIncrement(price_gap, factor10, flexibility) ==
    (price_gap * factor10 * Tenths(flexibility)) \div 100

_calculate_counter_offer(current_price, target_price, seller_analysis, phase) ==
    LET flexibility == DictGet(seller_analysis, "flexibility_score", 50)
        price_gap == current_price - target_price
        increment == IF phase = "opening" THEN IntIncrement(price_gap, 3, flexibility)
                     ELSE IF phase = "bargaining" THEN IntIncrement(price_gap, 4, flexibility)
                     ELSE IntIncrement(price_gap, 6, flexibility)
        new_offer == target_price + increment
    IN  Min(new_offer, current_price - 1000)

\* the decision table without its last branch: above the budget with a firm
\* seller it falls through to the default decision
DecisionTableWithoutWalkAway(target_price, max_budget, current_price, seller_analysis, phase) ==
    LET flexibility == DictGet(seller_analysis, "flexibility_score", 50)
    IN  IF current_price <= target_price
        THEN Decision("accept", NoInt, 90)
        ELSE IF current_price <= max_budget
        THEN IF flexibility > 60
             THEN Decision("counter_offer",
                           SomeInt(_calculate_counter_offer(current_price, target_price,
                                                            seller_analysis, phase)), 70)
             ELSE IF 100 * current_price < 95 * max_budget
             THEN Decision("accept_with_conditions", NoInt, 60)
             ELSE Decision("continue", NoInt, 50)
        ELSE IF flexibility > 70
        THEN Decision("final_offer", SomeInt(Min(max_budget, (target_price * 11) \div 10)), 40)
        ELSE Decision("continue", NoInt, 50)

\* the decision table on the values make_decision has read
DecisionTable(target_price, max_budget, current_price, seller_analysis, phase) ==
    LET flexibility == DictGet(seller_analysis, "flexibility_score", 50)
    IN  IF current_price <= target_price
        THEN Decision("accept", NoInt, 90)
        ELSE IF current_price <= max_budget
        THEN IF flexibility > 60
             THEN Decision("counter_offer",
                           SomeInt(_calculate_counter_offer(current_price, target_price,
                                                            seller_analysis, phase)), 70)
             ELSE IF 100 * current_price < 95 * max_budget
             THEN Decision("accept_with_conditions", NoInt, 60)
             ELSE Decision("continue", NoInt, 50)
        ELSE IF flexibility > 70
        THEN Decision("final_offer", SomeInt(Min(max_budget, (target_price * 11) \div 10)), 40)
        ELSE Decision("walk_away", NoInt, 80)

\* session_data is the dict the manager keeps per session; product_price is
\* product.price
make_decision(session_data, seller_analysis, phase, product_price) ==
    LET target_price == DictGet(session_data, "target_price", 0)
        max_budget   == DictGet(session_data, "max_budget", 0)
        extracted    == DictGet(DictGet(seller_analysis, "price_analysis", [x |-> 0]),
                                "current_price", NoInt)
        \* `if not current_price` is true of None and of 0
        current_price == IF extracted = NoInt \/ extracted = SomeInt(0) THEN product_price
                         ELSE extracted[1]
    IN  DecisionTable(target_price, max_budget, current_price, seller_analysis, phase)

\* ------------------------------------------------------------------------
\* StrategySelector
\* ------------------------------------------------------------------------

\* tactic_effectiveness[tactic].get(personality, 0.5), in hundredths
tactic_effectiveness(tactic, personality) ==
    LET table == [anchoring |-> [flexible |-> 80, firm |-> 40, eager |-> 90],
                  scarcity  |-> [flexible |-> 60, firm |-> 30, eager |-> 90],
                  bundling  |-> [flexible |-> 70, firm |-> 50, eager |-> 60],
                  urgency   |-> [flexible |-> 50, firm |-> 20, eager |-> 80]]
    IN  DictGet(DictGet(table, tactic, [x |-> 0]), personality, 50)

\* the elements of a list that satisfy keep, in order
RECURSIVE FilterTactics(_, _)
FilterTactics(tactics, personality) ==
    IF Len(tactics) = 0 THEN <<>>
    ELSE IF tactic_effectiveness(Head(tactics), personality) > 40
         THEN <<Head(tactics)>> \o FilterTactics(Tail(tactics), personality)
         ELSE FilterTactics(Tail(tactics), personality)

\* select_tactics without the filter by effectiveness
select_tactics_unfiltered(decision, seller_analysis, phase) ==
    LET urgent == DictGet(seller_analysis, "urgency_level", None) = "high"
        tactics ==
            IF phase = "opening"
            THEN <<"anchoring">> \o (IF urgent THEN <<"urgency">> ELSE <<>>)
            ELSE IF phase = "bargaining"
            THEN (IF DictGet(seller_analysis, "flexibility_score", 50) > 60
                  THEN <<"reciprocity">> ELSE <<>>)
                 \o (IF "price_too_low" \in DictGet(seller_analysis, "objections", {})
                     THEN <<"social_proof">> ELSE <<>>)
            ELSE IF phase = "closing"
            THEN <<"commitment">> \o (IF urgent THEN <<"scarcity">> ELSE <<>>)
            ELSE IF phase = "deadlock"
            THEN <<"bundling", "authority">>
            ELSE <<>>
    IN  SubSeq(tactics, 1, Min(3, Len(tactics)))

select_tactics(decision, seller_analysis, phase) ==
    LET personality == DictGet(seller_analysis, "personality", "flexible")
        urgent == DictGet(seller_analysis, "urgency_level", None) = "high"
        tactics ==
            IF phase = "opening"
            THEN <<"anchoring">> \o (IF urgent THEN <<"urgency">> ELSE <<>>)
            ELSE IF phase = "bargaining"
            THEN (IF DictGet(seller_analysis, "flexibility_score", 50) > 60
                  THEN <<"reciprocity">> ELSE <<>>)
                 \o (IF "price_too_low" \in DictGet(seller_analysis, "objections", {})
                     THEN <<"social_proof">> ELSE <<>>)
            ELSE IF phase = "closing"
            THEN <<"commitment">> \o (IF urgent THEN <<"scarcity">> ELSE <<>>)
            ELSE IF phase = "deadlock"
            THEN <<"bundling", "authority">>
            ELSE <<>>
        effective_tactics == FilterTactics(tactics, personality)
    IN  SubSeq(effective_tactics, 1, Min(3, Len(effective_tactics)))

\* ------------------------------------------------------------------------
\* ResponseGenerator
\*
\* A generator yields the set of contents random.choice can produce; Raised
\* stands for an exception leaving the generator.
\* ------------------------------------------------------------------------

Raised == <<Part("raised", 0)>>

\* ResponseGenerator has two methods named _generate_acceptance_response; the
\* later one (self, seller_analysis, session_data) replaces the earlier, and
\* generate_strategic_response calls it with three arguments: TypeError.
_generate_acceptance_response == {Raised}

_generate_walkaway_response(strategy) ==
    {<<Part("walkaway", DictGet(strategy, "maximum_budget", 0))>>}

\* _format_offer_with_tactic if the first template of every tactic needed a
\* key that format() is not given, as the first bundling template does
_format_offer_with_tactic_missing_key(offer_amount, tactics, strategy) ==
    LET primary_tactic == IF Len(tactics) > 0 THEN tactics[1] ELSE "anchoring"
    IN  IF primary_tactic = "scarcity"
        THEN {Raised, <<Part("scarcity2", offer_amount)>>}
        ELSE IF primary_tactic = "reciprocity"
        THEN {Raised, <<Part("reciprocity2", offer_amount)>>}
        ELSE IF primary_tactic = "social_proof"
        THEN {Raised, <<Part("social2", offer_amount)>>}
        ELSE IF primary_tactic = "commitment"
        THEN {Raised, <<Part("commitment2", offer_amount)>>}
        ELSE IF primary_tactic = "bundling"
        THEN {Raised, <<Part("bundling2", offer_amount)>>}
        ELSE {Raised, <<Part("default_offer", offer_amount)>>}

_format_offer_with_tactic(offer_amount, tactics, strategy) ==
    LET primary_tactic == IF Len(tactics) > 0 THEN tactics[1] ELSE "anchoring"
    IN  IF primary_tactic = "anchoring"
        THEN IF DictGet(strategy, "market_position", "unknown") = "above_market"
             THEN {<<Part("anchor_market", offer_amount)>>}
             ELSE {<<Part("anchor", offer_amount)>>}
        ELSE IF primary_tactic = "urgency"
        THEN {<<Part("urgency", offer_amount)>>}
        ELSE IF primary_tactic = "authority"
        THEN IF strategy.condition_concerns
             THEN {<<Part("authority_cond", offer_amount)>>}
             ELSE {<<Part("authority", offer_amount)>>}
        ELSE IF primary_tactic = "scarcity"
        THEN {<<Part("scarcity1", offer_amount)>>, <<Part("scarcity2", offer_amount)>>}
        ELSE IF primary_tactic = "reciprocity"
        THEN {<<Part("reciprocity1", offer_amount)>>, <<Part("reciprocity2", offer_amount)>>}
        ELSE IF primary_tactic = "social_proof"
        THEN {<<Part("social1", offer_amount)>>, <<Part("social2", offer_amount)>>}
        ELSE IF primary_tactic = "commitment"
        THEN {<<Part("commitment1", offer_amount)>>, <<Part("commitment2", offer_amount)>>}
        ELSE IF primary_tactic = "bundling"
        \* the first bundling template needs {additional_item}: KeyError
        THEN {Raised, <<Part("bundling2", offer_amount)>>}
        ELSE {<<Part("default_offer", offer_amount)>>}

_generate_enhanced_tactical_response(decision, tactics, seller_analysis, strategy) ==
    LET talking_points == strategy.talking_points
        \* the decision dict has no key 'offer_amount'
        offer_amount == 0
        ack == IF DictGet(seller_analysis, "contains_offer", FALSE)
               THEN <<Part("ack_response", 0)>> ELSE <<Part("ack_interest", 0)>>
        price_args == IF Len(talking_points.price_arguments) > 0 /\ "social_proof" \in SeqToSet(tactics)
                      THEN {<<p>> : p \in SeqToSet(talking_points.price_arguments)}
                      ELSE {<<>>}
        cond_args == IF Len(talking_points.condition_points) > 0 /\ strategy.condition_concerns
                     THEN {<<p>> : p \in SeqToSet(talking_points.condition_points)}
                     ELSE {<<>>}
        offers == _format_offer_with_tactic(offer_amount, tactics, strategy)
        closing == IF decision.action = "final_offer"
                   THEN IF Len(talking_points.closing_arguments) > 0
                        THEN {<<p>> : p \in SeqToSet(talking_points.closing_arguments)}
                        ELSE {<<Part("best_offer", 0)>>}
                   ELSE {<<>>}
    IN  {IF o = Raised THEN Raised ELSE ack \o pa \o ca \o o \o cl :
            pa \in price_args, ca \in cond_args, o \in offers, cl \in closing}

\* session_data.get('product', {}) is the Product model, which has no get():
\* without opening statements the f-string raises AttributeError
_generate_enhanced_exploratory_response(strategy) ==
    LET talking_points == strategy.talking_points
    IN  IF Len(talking_points.opening_statements) = 0 THEN {Raised}
        ELSE {<<main_message>> \o
                 (IF Len(talking_points.market_comparisons) > 0
                  THEN <<talking_points.market_comparisons[1]>>
                  ELSE <<Part("explore_more", 0)>>) :
              main_message \in SeqToSet(talking_points.opening_statements)}

generate_strategic_response(decision, tactics, seller_analysis, strategy) ==
    IF decision.action = "accept" THEN _generate_acceptance_response
    ELSE IF decision.action = "walk_away" THEN _generate_walkaway_response(strategy)
    ELSE IF decision.action \in {"counter_offer", "final_offer"}
    THEN _generate_enhanced_tactical_response(decision, tactics, seller_analysis, strategy)
    ELSE _generate_enhanced_exploratory_response(strategy)

\* ------------------------------------------------------------------------
\* AdvancedNegotiationEngine.process_negotiation_turn
\* ------------------------------------------------------------------------

\* what the except branch returns
TurnFallback ==
    [response |-> <<Part("pause", 0)>>,
     decision |-> Decision("pause", NoInt, 50),
     tactics_used |-> <<>>,
     seller_analysis |-> [empty |-> TRUE],
     phase |-> "exploration",
     confidence |-> 50]

\* steps 3 to 5 of process_negotiation_turn and its except branch: the set of
\* results of one call (one per outcome of random.choice)
TurnSteps(session_data, seller_analysis, current_phase, product_price) ==
    LET decision == make_decision(session_data, seller_analysis, current_phase, product_price)
        tactics == select_tactics(decision, seller_analysis, current_phase)
        responses == generate_strategic_response(decision, tactics, seller_analysis,
                                                 DictGet(session_data, "strategy", [x |-> 0]))
    IN  {IF response = Raised THEN TurnFallback
         ELSE [response |-> response,
               decision |-> decision,
               tactics_used |-> tactics,
               seller_analysis |-> seller_analysis,
               phase |-> current_phase,
               confidence |-> decision.confidence] :
         response \in responses}

\* steps 1 and 2 of process_negotiation_turn, then the rest
process_negotiation_turn(session_data, seller_message, chat_history, product_price) ==
    UNION {TurnSteps(session_data, seller_analysis,
                     _determine_negotiation_phase(chat_history, seller_analysis),
                     product_price) :
           seller_analysis \in {analyze_seller_message(seller_message, chat_history)}}

\* ------------------------------------------------------------------------
\* State
\* ------------------------------------------------------------------------

VARIABLES
    sessions,             \* id -> the NegotiationSession object
    session_data,         \* id -> the session_data dict that holds that session
    active_sessions,      \* keys of AdvancedSessionManager.active_sessions
    enhanced_ai_service,  \* whether the manager has an enhanced AI service
    learning_data_file,   \* the records in the file learning_data.json
    tasks,                \* the bag of handler coroutines in flight
    last_turn,            \* what the latest step of a handler did
    cancelled_mid_turn,   \* the turns that were suspended when their session was ended
    now                   \* what datetime.now() returns to the handler step that runs

vars == <<sessions, session_data, active_sessions, enhanced_ai_service, learning_data_file, tasks,
          last_turn, cancelled_mid_turn, now>>

\* ChatMessage with a timestamp that was taken before the service started
ChatMessage_with_stale_timestamp(sender, content, sender_type) ==
    [sender |-> sender, content |-> content, sender_type |-> sender_type,
     timestamp |-> IF sender_type = "error" THEN 0 ELSE now]

\* ChatMessage(..., timestamp=datetime.now(), ...): every message is made with
\* the time of the step that appends it
ChatMessage(sender, content, sender_type) ==
    [sender |-> sender, content |-> content, sender_type |-> sender_type, timestamp |-> now]

\* a coroutine of handler kind on session sid, suspended at pc
Task(kind, sid, pc, seller_message) ==
    [kind |-> kind, sid |-> sid, pc |-> pc, seller_message |-> seller_message]

\* last_turn after a step that is not a pass of a seller message; error is the
\* exception the pass raised to its caller
NoTurn == [op |-> "none", sid |-> None, seller_message |-> "empty", status_before |-> None,
           intervention |-> None, engine_invoked |-> FALSE,
           engine_decision |-> Decision(None, NoInt, 0),
           current_price |-> NoInt, flexibility_score |-> 0, phase |-> None,
           action |-> None, completion |-> None, error |-> None,
           seller_analysis |-> [empty |-> TRUE], tactics_used |-> <<>>,
           recommendations |-> [empty |-> TRUE]]

\* the record of a step of handler op on session sid
Step(op, sid, seller_message, status_before) ==
    [NoTurn EXCEPT !.op = op, !.sid = sid, !.seller_message = seller_message,
                   !.status_before = status_before]

\* _formulate_initial_strategy on the analysis create_session_from_url falls
\* back to: no talking points, market position unknown, no condition concerns
_formulate_initial_strategy(params) ==
    [target_price |-> params.target_price,
     maximum_budget |-> params.max_budget,
     market_position |-> "unknown",
     condition_concerns |-> FALSE,
     talking_points |-> [opening_statements |-> <<>>, price_arguments |-> <<>>,
                         condition_points |-> <<>>, market_comparisons |-> <<>>,
                         closing_arguments |-> <<>>]]

Registered(s) == s \in active_sessions

\* the event loop takes one more coroutine
CanSpawn == BagCardinality(tasks) < MaxTasks

Spawn(task) == tasks (+) SetToBag({task})

\* the coroutine runs from one suspension to the next, or to its end
Advance(task, pc) ==
    IF pc = "done" THEN tasks (-) SetToBag({task})
    ELSE (tasks (-) SetToBag({task})) (+) SetToBag({[task EXCEPT !.pc = pc]})

InFlight == BagToSet(tasks)

Init ==
    /\ sessions = <<>>
    /\ session_data = <<>>
    /\ active_sessions = {}
    /\ enhanced_ai_service \in BOOLEAN
    /\ learning_data_file = <<>>
    /\ tasks = EmptyBag
    /\ last_turn = NoTurn
    /\ cancelled_mid_turn = {}
    /\ now = 1

\* ------------------------------------------------------------------------
\* AdvancedSessionManager: helpers
\* ------------------------------------------------------------------------

\* the prices Read found in the messages, in order
_extract_recent_prices(messages) ==
    Flatten([i \in 1..Len(messages) |-> messages[i].content.prices])

RECURSIVE _extract_final_agreed_price(_)
_extract_final_agreed_price(messages) ==
    IF Len(messages) = 0 THEN NoInt
    ELSE LET msg == messages[Len(messages)]
         IN  IF /\ msg.sender = "ai"
                /\ AnyIn(agreed_price_words, msg.content)
                /\ Len(msg.content.prices) > 0
             THEN SomeInt(msg.content.prices[Len(msg.content.prices)])
             ELSE _extract_final_agreed_price(SubSeq(messages, 1, Len(messages) - 1))

\* messages is session.messages with the seller message already appended
_check_intervention_triggers(messages, seller_message) ==
    IF AnyIn(seller_request_phrases, seller_message) THEN "seller_request"
    ELSE IF AnyIn(complex_terms_phrases, seller_message) THEN "complex_terms"
    ELSE IF /\ Len(messages) > 12
            /\ Len(_extract_recent_prices(LastN(messages, 6))) > 0
            /\ Cardinality(SeqToSet(_extract_recent_prices(LastN(messages, 6)))) = 1
         THEN "deadlock"
    ELSE IF AnyIn(technical_issue_phrases, seller_message) THEN "technical_issue"
    ELSE None

_check_completion_conditions(session, negotiation_result) ==
    LET decision == DictGet(negotiation_result, "decision", [x |-> 0])
        action == DictGet(decision, "action", None)
    IN  IF action = "accept" THEN "success"
        ELSE IF action = "walk_away" THEN "failed_price"
        ELSE IF action = "final_offer" /\ DictGet(decision, "confidence", 0) < 30
             THEN "failed_price"
        ELSE IF Len(session.messages) > 20 THEN "seller_unresponsive"
        ELSE None

\* handoff_messages.get(trigger, ...)
handoff_messages(trigger) ==
    CASE trigger = "seller_request"  -> <<Part("handoff_seller_request", 0)>>
      [] trigger = "complex_terms"   -> <<Part("handoff_complex_terms", 0)>>
      [] trigger = "deadlock"        -> <<Part("handoff_deadlock", 0)>>
      [] trigger = "technical_issue" -> <<Part("handoff_technical_issue", 0)>>

\* the session after _complete_session has written to it; messages is
\* session.messages as read
_complete_session(session, outcome, messages) ==
    [session EXCEPT !.status = "completed",
                    !.outcome = outcome,
                    !.ended_at = TRUE,
                    !.final_price = IF outcome = "success"
                                    THEN _extract_final_agreed_price(messages)
                                    ELSE @]

\* LearningEngine._save_learning_record: the records of the file after record
\* is appended and the list is cut to its last 1000
_save_learning_record(learning_data, record) ==
    LET appended == Append(learning_data, record)
    IN  IF Len(appended) > 1000 THEN LastN(appended, 1000) ELSE appended

\* the learning_record LearningEngine.update_from_session builds at time
\* timestamp for a session that ended with outcome
learning_record(timestamp, session, data, outcome) ==
    [timestamp |-> timestamp,
     outcome |-> outcome,
     product_category |-> data.product.category,
     negotiation_approach |-> session.user_params.approach,
     price_gap |-> data.product.price - session.user_params.target_price,
     tactics_used |-> DictGet(data, "tactics_history", <<>>),
     seller_personality |-> DictGet(data, "seller_personality", None)]

\* LearningEngine.update_from_session: the records of the file afterwards
update_from_session(learning_data, session, data, outcome) ==
    _save_learning_record(learning_data, learning_record(now, session, data, outcome))

\* LearningEngine.get_strategy_recommendations for a product of category and
\* params of approach.  success_rate is the pair <<numerator, denominator>>,
\* confidence is in tenths.  No file has been written while there is no
\* record, and open() raises FileNotFoundError
get_strategy_recommendations(learning_data, category, approach) ==
    LET similar_scenarios ==
            SelectSeq(learning_data,
                      LAMBDA r : r.product_category = category
                                 /\ r.negotiation_approach = approach)
        successful_records == SelectSeq(similar_scenarios, LAMBDA r : r.outcome = "success")
        used == Flatten([i \in 1..Len(successful_records) |->
                            successful_records[i].tactics_used])
        tactics_frequency(tactic) == Len(SelectSeq(used, LAMBDA t : t = tactic))
        \* the keys of tactics_frequency, in the order of their insertion
        keys[n \in 0..Len(used)] ==
            IF n = 0 THEN <<>>
            ELSE IF used[n] \in SeqToSet(keys[n - 1]) THEN keys[n - 1]
            ELSE Append(keys[n - 1], used[n])
        \* sorted(..., key=count, reverse=True) keeps the order of equal counts
        Before(a, b, items) ==
            \/ tactics_frequency(items[a]) > tactics_frequency(items[b])
            \/ tactics_frequency(items[a]) = tactics_frequency(items[b]) /\ a < b
        Rank(a, items) == Cardinality({b \in 1..Len(items) : Before(b, a, items)}) + 1
        sorted(items) ==
            [n \in 1..Len(items) |-> items[CHOOSE a \in 1..Len(items) : Rank(a, items) = n]]
        recommended_tactics == SubSeq(sorted(keys[Len(used)]), 1, Min(3, Len(keys[Len(used)])))
    IN  IF Len(learning_data) = 0
        THEN [success_rate |-> <<5, 10>>, recommended_tactics |-> <<>>,
              confidence |-> 2, similar_scenarios_count |-> 0]
        ELSE IF Len(similar_scenarios) > 0 /\ Len(successful_records) > 0
        THEN [success_rate |-> <<Len(successful_records), Len(similar_scenarios)>>,
              recommended_tactics |-> recommended_tactics,
              confidence |-> Min(10, Len(similar_scenarios)),
              similar_scenarios_count |-> Len(similar_scenarios)]
        ELSE [success_rate |-> <<6, 10>>,
              recommended_tactics |-> <<"anchoring", "reciprocity">>,
              confidence |-> 3, similar_scenarios_count |-> 0]

\* the session after _trigger_human_handoff has written to it
_trigger_human_handoff(session, trigger) ==
    [session EXCEPT !.status = "human_handoff",
                    !.messages = Append(@, ChatMessage("ai", handoff_messages(trigger), "handoff"))]

\* _handle_session_error without its error message
_handle_session_error_without_message(session, registered, error_message) ==
    IF registered
    THEN [session EXCEPT !.status = "failed", !.outcome = "technical_error", !.ended_at = TRUE]
    ELSE session

\* the session after _handle_session_error has written to it; registered is
\* `session_id in self.active_sessions`
_handle_session_error(session, registered, error_message) ==
    IF registered
    THEN [session EXCEPT !.status = "failed",
                         !.outcome = "technical_error",
                         !.ended_at = TRUE,
                         !.messages = Append(@, ChatMessage("system", <<Part(error_message, 0)>>, "error"))]
    ELSE session

\* what process_seller_response makes of the answer of the enhanced service
ConvertEnhanced(negotiation_result, data) ==
    [response |-> negotiation_result.response,
     confidence |-> negotiation_result.confidence,
     tactics_used |-> negotiation_result.tactics_used,
     phase |-> DictGet(data, "phase", "exploration"),
     decision |-> [action |-> DictGet(negotiation_result, "action_type", "respond")]]

\* EnhancedAIService.make_negotiation_decision: the formatted decision of the
\* LangChain agent, or engine_decision, the result of process_negotiation_turn
make_negotiation_decision(engine_decision, params) ==
    {[response |-> text, confidence |-> 75, tactics_used |-> <<>>,
      phase |-> "exploration", decision |-> [action |-> "respond"]] : text \in AgentTexts(params)}
    \cup engine_decision

\* process_seller_response from the AI response message to its return, when
\* _check_completion_conditions gives completion_check; pc is where the
\* coroutine is suspended with code still to run ("done": none, it has
\* returned or raised).  chat_history is session.messages as read.
FinishTurn(session, data, registered, negotiation_result, chat_history, completion_check) ==
    [session |-> IF completion_check # None /\ registered
                 THEN _complete_session(session, completion_check,
                          Append(chat_history,
                                 [sender |-> "ai",
                                  content |-> Read(negotiation_result.response)]))
                 \* self.active_sessions[session_id] raises KeyError in
                 \* _complete_session
                 ELSE IF completion_check # None
                 THEN _handle_session_error(session, registered, "error_session_id")
                 ELSE session,
     data |-> [data EXCEPT !.performance_metrics.messages_sent = @ + 1,
                           !.phase = DictGet(negotiation_result, "phase", "exploration")],
     pc |-> IF completion_check # None /\ registered THEN "save_complete" ELSE "done",
     completion |-> completion_check,
     error |-> IF completion_check # None /\ ~registered THEN "KeyError" ELSE None]

\* what a pass of process_seller_response leaves: the session, its data, the
\* suspension and the record of the step
TurnOutcome(step, done, action) ==
    [session |-> done.session, data |-> done.data, pc |-> done.pc,
     step |-> [step EXCEPT !.action = action, !.completion = done.completion,
                           !.error = done.error]]

\* the record of a step in which the engine ran
EngineStep(step, seller_analysis, current_phase, decision) ==
    [step EXCEPT !.engine_invoked = TRUE,
                 !.engine_decision = decision,
                 !.current_price = seller_analysis.price_analysis.current_price,
                 !.flexibility_score = seller_analysis.flexibility_score,
                 !.phase = current_phase,
                 !.seller_analysis = seller_analysis]

\* process_seller_response from `ai_message = ChatMessage(...)` on
AfterAnswer(step, session, data, registered, negotiation_result, chat_history) ==
    TurnOutcome([step EXCEPT !.tactics_used = negotiation_result.tactics_used],
                FinishTurn(session, data, registered, negotiation_result, chat_history,
                           _check_completion_conditions(session, negotiation_result)),
                negotiation_result.decision.action)

\* the log with the AI response message appended
WithResponse(session, negotiation_result) ==
    [session EXCEPT !.messages = Append(@, ChatMessage("ai", negotiation_result.response, "ai"))]

\* process_seller_response from the call of the engine or of the enhanced
\* service to the next suspension: the outcomes, one per answer.  seller_message
\* and chat_history are the seller's text and session.messages as read.
AfterDecision(step, session, data, registered, seller_message, chat_history, enhanced) ==
    UNION {UNION {UNION {
        {AfterAnswer(EngineStep(step, seller_analysis, current_phase, result.decision),
                     WithResponse(session, result), data, registered, result, chat_history) :
            result \in IF enhanced THEN {} ELSE engine_results}
        \cup
        {AfterAnswer(IF answer \in engine_results
                     THEN EngineStep(step, seller_analysis, current_phase, answer.decision)
                     ELSE step,
                     WithResponse(session, answer), data, registered,
                     ConvertEnhanced(answer, data), chat_history) :
            answer \in IF enhanced
                       THEN make_negotiation_decision(engine_results, session.user_params)
                       ELSE {}} :
        engine_results \in {TurnSteps(data, seller_analysis, current_phase,
                                      data.product.price)}} :
        current_phase \in {_determine_negotiation_phase(chat_history, seller_analysis)}} :
        seller_analysis \in {analyze_seller_message(seller_message, chat_history)}}

\* the record of a seller message in the log as read
Heard(seller_message) == [sender |-> "seller", content |-> seller_message]

\* process_seller_response from its first line to its first suspension;
\* seller_message and chat_history are the text of m and session.messages as
\* read
SellerResponseOutcomes(session, data, s, m, seller_message, chat_history, enhanced) ==
    IF /\ data.performance_metrics.time_to_first_response = None
       /\ "start_time" \notin DOMAIN data
    THEN \* KeyError: 'start_time'
         {[session |-> _handle_session_error(session, TRUE, "error_start_time"),
           data |-> data, pc |-> "done",
           step |-> [Step("process_seller_response", s, m, session.status)
                        EXCEPT !.error = "KeyError"]]}
    ELSE UNION {
        IF intervention # None
        THEN {[session |-> _trigger_human_handoff(
                              [session EXCEPT !.messages =
                                  Append(@, ChatMessage("seller", <<Part(m, 0)>>, "human"))],
                              intervention),
               data |-> [data EXCEPT
                           !.performance_metrics.time_to_first_response = "set",
                           !.intervention_triggers = Append(@, intervention)],
               pc |-> "done",
               step |-> [Step("process_seller_response", s, m, session.status)
                            EXCEPT !.intervention = intervention]]}
        ELSE IF enhanced
        THEN {[session |-> [session EXCEPT !.messages =
                               Append(@, ChatMessage("seller", <<Part(m, 0)>>, "human"))],
               data |-> [data EXCEPT !.performance_metrics.time_to_first_response = "set"],
               pc |-> "await_ai",
               step |-> Step("process_seller_response", s, m, session.status)]}
        ELSE AfterDecision(Step("process_seller_response", s, m, session.status),
                 [session EXCEPT !.messages =
                     Append(@, ChatMessage("seller", <<Part(m, 0)>>, "human"))],
                 [data EXCEPT !.performance_metrics.time_to_first_response = "set"],
                 TRUE, seller_message, Append(chat_history, Heard(seller_message)), FALSE) :
        intervention \in {_check_intervention_triggers(
                              Append(chat_history, Heard(seller_message)), seller_message)}}

\* ------------------------------------------------------------------------
\* Handlers
\* ------------------------------------------------------------------------

\* a turn of session s is in flight: begun, and suspended with code still to run
TurnInFlight(s) == \E task \in InFlight : task.kind = "turn" /\ task.sid = s

\* the awaited calls of create_session_from_url that can raise: the scraper
\* (or the test of its result), db.save_product and db.save_session
CreateFailures == {"scrape_product", "save_product", "save_session"}

\* create_session_from_url, for a listing the scraper could read when failure
\* is None, and with the call named by failure raising otherwise: the except
\* clause logs and raises again.  The session is stored in active_sessions
\* before db.save_session is awaited
create_session_from_url(s, params, price, failure) ==
    /\ s \notin DOMAIN sessions
    /\ IF failure \in {"scrape_product", "save_product"}
       THEN UNCHANGED <<sessions, session_data, active_sessions>>
       ELSE /\ sessions' = sessions @@ (s :> [status |-> "initializing", outcome |-> None,
                                              final_price |-> NoInt, ended_at |-> FALSE,
                                              user_params |-> params, messages |-> <<>>])
            /\ session_data' = session_data @@
                    (s :> [product |-> [price |-> price, category |-> "electronics"],
                           strategy |-> _formulate_initial_strategy(params),
                           phase |-> "opening",
                           intervention_triggers |-> <<>>,
                           performance_metrics |-> [messages_sent |-> 0,
                                                    time_to_first_response |-> None]])
            /\ active_sessions' = active_sessions \cup {s}
    /\ last_turn' = IF failure = None THEN NoTurn
                    ELSE [Step("create_session_from_url", s, "empty", None)
                             EXCEPT !.error = failure]
    /\ UNCHANGED <<now, enhanced_ai_service, learning_data_file, tasks, cancelled_mid_turn>>

\* the validation of the request body: both prices are Field(..., gt=0)
URLNegotiationRequest(request) == request.target_price > 0 /\ request.max_budget > 0

\* the validation of the NegotiationParams model: target_price > 0 and
\* max_budget >= target_price
NegotiationParams(request) ==
    request.target_price > 0 /\ request.max_budget >= request.target_price

\* start_negotiation_from_url without the NegotiationParams it constructs
start_negotiation_from_url_raw_request(s, request, price) ==
    IF URLNegotiationRequest(request)
    THEN create_session_from_url(s, request, price, None)
    ELSE /\ last_turn' = [NoTurn EXCEPT !.op = "start_negotiation_from_url",
                                        !.error = "ValidationError"]
         /\ UNCHANGED <<now, sessions, session_data, active_sessions, enhanced_ai_service,
                        learning_data_file, tasks, cancelled_mid_turn>>

\* POST /api/negotiate-url: the request is validated, NegotiationParams is
\* constructed from it, and the session is created with these params
start_negotiation_from_url(s, request, price) ==
    IF URLNegotiationRequest(request) /\ NegotiationParams(request)
    THEN create_session_from_url(s, request, price, None)
    ELSE /\ last_turn' = [NoTurn EXCEPT !.op = "start_negotiation_from_url",
                                        !.error = "ValidationError"]
         /\ UNCHANGED <<now, sessions, session_data, active_sessions, enhanced_ai_service,
                        learning_data_file, tasks, cancelled_mid_turn>>

\* session_data['start_time'] = datetime.now()
WithStartTime(data) ==
    [product |-> data.product, strategy |-> data.strategy, phase |-> data.phase,
     intervention_triggers |-> data.intervention_triggers,
     performance_metrics |-> data.performance_metrics,
     start_time |-> TRUE]

\* start_negotiation looking the session up without the registry
start_negotiation_without_registry(s) ==
    /\ s \in DOMAIN sessions
    /\ \E opening_result \in process_negotiation_turn(WithStartTime(session_data[s]),
                                 Read(<<Part("empty", 0)>>), <<>>,
                                 session_data[s].product.price) :
          /\ sessions' = [sessions EXCEPT
                 ![s].status = "active",
                 ![s].messages = Append(@, ChatMessage("ai", opening_result.response, "ai"))]
          /\ session_data' = [session_data EXCEPT
                 ![s] = [WithStartTime(@) EXCEPT !.performance_metrics.messages_sent = @ + 1]]
    /\ last_turn' = NoTurn
    /\ now' = now + 1
    /\ UNCHANGED <<active_sessions, enhanced_ai_service, learning_data_file, tasks, cancelled_mid_turn>>

\* start_negotiation without its status update
start_negotiation_keeping_status(s) ==
    IF ~Registered(s)
    THEN /\ last_turn' = [Step("start_negotiation", s, "empty", None) EXCEPT !.error = "ValueError"]
         /\ UNCHANGED <<now, sessions, session_data, active_sessions, enhanced_ai_service,
                        learning_data_file, tasks, cancelled_mid_turn>>
    ELSE /\ \E opening_result \in process_negotiation_turn(WithStartTime(session_data[s]),
                                      Read(<<Part("empty", 0)>>), <<>>,
                                      session_data[s].product.price) :
               /\ sessions' = [sessions EXCEPT
                      ![s].messages = Append(@, ChatMessage("ai", opening_result.response, "ai"))]
               /\ session_data' = [session_data EXCEPT
                      ![s] = [WithStartTime(@) EXCEPT !.performance_metrics.messages_sent = @ + 1]]
         /\ last_turn' = NoTurn
         /\ now' = now + 1
         /\ UNCHANGED <<active_sessions, enhanced_ai_service, learning_data_file, tasks, cancelled_mid_turn>>

\* start_negotiation; its save is its last statement.  For an id that is not
\* registered it raises ValueError
start_negotiation(s) ==
    IF ~Registered(s)
    THEN /\ last_turn' = [Step("start_negotiation", s, "empty", None) EXCEPT !.error = "ValueError"]
         /\ UNCHANGED <<now, sessions, session_data, active_sessions, enhanced_ai_service,
                        learning_data_file, tasks, cancelled_mid_turn>>
    ELSE /\ \E opening_result \in process_negotiation_turn(WithStartTime(session_data[s]),
                                      Read(<<Part("empty", 0)>>), <<>>,
                                      session_data[s].product.price) :
               /\ sessions' = [sessions EXCEPT
                      ![s].status = "active",
                      ![s].messages = Append(@, ChatMessage("ai", opening_result.response, "ai"))]
               /\ session_data' = [session_data EXCEPT
                      ![s] = [WithStartTime(@) EXCEPT !.performance_metrics.messages_sent = @ + 1]]
         /\ last_turn' = NoTurn
         /\ now' = now + 1
         /\ UNCHANGED <<active_sessions, enhanced_ai_service, learning_data_file, tasks, cancelled_mid_turn>>

\* process_seller_response writing the status its turn ends with to every
\* session of the registry
process_seller_response_all_sessions(s, m) ==
    /\ CanSpawn
    /\ Registered(s)
    /\ \E o \in SellerResponseOutcomes(sessions[s], session_data[s], s, m,
                                       Read(<<Part(m, 0)>>), ReadAll(sessions[s].messages),
                                       enhanced_ai_service) :
          /\ sessions' = [x \in DOMAIN sessions |->
                             IF x = s THEN o.session
                             ELSE IF x \in active_sessions
                             THEN [sessions[x] EXCEPT !.status = o.session.status,
                                                      !.outcome = o.session.outcome]
                             ELSE sessions[x]]
          /\ session_data' = [session_data EXCEPT ![s] = o.data]
          /\ tasks' = IF o.pc = "done" THEN tasks ELSE Spawn(Task("turn", s, o.pc, m))
          /\ last_turn' = o.step
          /\ learning_data_file' = IF o.pc = "save_complete"
                                   THEN update_from_session(learning_data_file, o.session,
                                                            o.data, o.step.completion)
                                   ELSE learning_data_file
    /\ now' = now + 1
    /\ UNCHANGED <<active_sessions, enhanced_ai_service, cancelled_mid_turn>>

\* process_seller_response up to its first suspension.  For an id that is not
\* registered it raises ValueError, and _handle_session_error finds no session
\* to write to
process_seller_response(s, m) ==
    IF ~Registered(s)
    THEN /\ last_turn' = [Step("process_seller_response", s, m, None)
                             EXCEPT !.error = "ValueError"]
         /\ UNCHANGED <<now, sessions, session_data, active_sessions, enhanced_ai_service,
                        learning_data_file, tasks, cancelled_mid_turn>>
    ELSE /\ CanSpawn
         /\ \E o \in SellerResponseOutcomes(sessions[s], session_data[s], s, m,
                                       Read(<<Part(m, 0)>>), ReadAll(sessions[s].messages),
                                       enhanced_ai_service) :
               /\ sessions' = [sessions EXCEPT ![s] = o.session]
               /\ session_data' = [session_data EXCEPT ![s] = o.data]
               /\ tasks' = IF o.pc = "done" THEN tasks ELSE Spawn(Task("turn", s, o.pc, m))
               /\ last_turn' = o.step
               /\ learning_data_file' = IF o.pc = "save_complete"
                                        THEN update_from_session(learning_data_file, o.session,
                                                                 o.data, o.step.completion)
                                        ELSE learning_data_file
         /\ now' = now + 1
         /\ UNCHANGED <<active_sessions, enhanced_ai_service, cancelled_mid_turn>>

\* process_seller_response from the answer of the enhanced AI service on
resume_make_negotiation_decision(task) ==
    /\ task.kind = "turn"
    /\ task.pc = "await_ai"
    /\ LET s == task.sid
           m == task.seller_message
       IN  \E o \in AfterDecision(Step("resume_make_negotiation_decision", s, m,
                                        sessions[s].status),
                                   sessions[s], session_data[s], Registered(s),
                                   Read(<<Part(m, 0)>>), ReadAll(sessions[s].messages),
                                   TRUE) :
             /\ sessions' = [sessions EXCEPT ![s] = o.session]
             /\ session_data' = [session_data EXCEPT ![s] = o.data]
             /\ tasks' = Advance(task, o.pc)
             /\ last_turn' = o.step
             /\ learning_data_file' = IF o.pc = "save_complete"
                                      THEN update_from_session(learning_data_file, o.session,
                                                               o.data, o.step.completion)
                                      ELSE learning_data_file
    /\ now' = now + 1
    /\ UNCHANGED <<active_sessions, enhanced_ai_service, cancelled_mid_turn>>

\* handle_session_end_request up to its save
handle_session_end_request(s, outcome, final_price) ==
    /\ CanSpawn
    /\ Registered(s)
    /\ sessions' = [sessions EXCEPT ![s].status = "cancelled",
                                    ![s].outcome = outcome,
                                    ![s].final_price = final_price,
                                    ![s].ended_at = TRUE]
    /\ tasks' = Spawn(Task("end", s, "save_end", "empty"))
    /\ cancelled_mid_turn' = cancelled_mid_turn
                                \cup {task \in InFlight : task.kind = "turn" /\ task.sid = s}
    /\ last_turn' = NoTurn
    /\ UNCHANGED <<now, session_data, active_sessions, enhanced_ai_service, learning_data_file>>

\* handle_user_override putting the user's message in the place of the last
\* message of the log
handle_user_override_replacing_last(s, content) ==
    /\ Registered(s)
    /\ sessions[s].messages # <<>>
    /\ sessions' = [sessions EXCEPT ![s].messages =
           [@ EXCEPT ![Len(@)] = ChatMessage("user", <<Part(content, 0)>>, "override")]]
    /\ last_turn' = NoTurn
    /\ now' = now + 1
    /\ UNCHANGED <<session_data, active_sessions, enhanced_ai_service, learning_data_file, tasks,
                 cancelled_mid_turn>>

\* handle_user_override, for a registered session (it returns at once for any
\* other id): it reads and writes the session after its send to the seller, and
\* its save is its last statement
handle_user_override(s, content) ==
    /\ Registered(s)
    /\ sessions' = [sessions EXCEPT ![s].messages =
           Append(@, ChatMessage("user", <<Part(content, 0)>>, "override"))]
    /\ last_turn' = NoTurn
    /\ now' = now + 1
    /\ UNCHANGED <<session_data, active_sessions, enhanced_ai_service, learning_data_file, tasks,
                 cancelled_mid_turn>>

\* a coroutine suspended in `await db.save_session(session)` with code still to
\* run takes the session out of the registry and returns
resume_save_session(task) ==
    /\ task.pc \in {"save_complete", "save_end"}
    /\ active_sessions' = active_sessions \ {task.sid}
    /\ tasks' = Advance(task, "done")
    /\ last_turn' = NoTurn
    /\ UNCHANGED <<now, sessions, session_data, enhanced_ai_service, learning_data_file, cancelled_mid_turn>>

\* the log of session s can take n more messages within the bound max
Room(s, n, max) == s \in DOMAIN sessions /\ Len(sessions[s].messages) + n <= max

Next ==
    \/ \E s \in SessionIds, params \in ParamsChoices, price \in ProductPrices,
          failure \in {None} \cup CreateFailures :
         create_session_from_url(s, params, price, failure)
    \/ \E s \in SessionIds : Registered(s) /\ Room(s, 1, MaxMessages) /\ start_negotiation(s)
    \/ \E s \in SessionIds, m \in SellerTexts :
         Registered(s) /\ Room(s, 2, MaxMessages) /\ process_seller_response(s, m)
    \/ \E task \in InFlight : resume_make_negotiation_decision(task)
    \/ \E s \in SessionIds, message_data \in EndRequests :
         handle_session_end_request(s, message_data.outcome, message_data.final_price)
    \/ \E task \in InFlight : resume_save_session(task)

Spec == Init /\ [][Next]_vars

\* ------------------------------------------------------------------------
\* Sessions late in a long conversation
\* ------------------------------------------------------------------------

\* the log of a session with an enhanced AI service after start_negotiation and
\* k seller messages, each answered by the LangChain agent (the prices of the
\* last six messages differ, so no deadlock is detected)
RECURSIVE LateLog(_, _)
LateLog(params, k) ==
    IF k = 0
    THEN <<ChatMessage("ai", <<Part("walkaway", params.max_budget)>>, "ai")>>
    ELSE LateLog(params, k - 1)
         \o <<ChatMessage("seller", <<Part("seller_flex_9000", 0)>>, "human"),
              ChatMessage("ai", <<Part("llm_offer", params.target_price)>>, "ai")>>

LateInit ==
    /\ now = 1
    /\ \E s \in SessionIds, params \in ParamsChoices, price \in ProductPrices, k \in LateTurns :
        /\ sessions = (s :> [status |-> "active", outcome |-> None, final_price |-> NoInt,
                             ended_at |-> FALSE, user_params |-> params,
                             messages |-> LateLog(params, k)])
        /\ session_data = (s :> [product |-> [price |-> price, category |-> "electronics"],
                                 strategy |-> _formulate_initial_strategy(params),
                                 phase |-> "opening",
                                 intervention_triggers |-> <<>>,
                                 performance_metrics |-> [messages_sent |-> k + 1,
                                                          time_to_first_response |-> "set"],
                                 start_time |-> TRUE])
        /\ active_sessions = {s}
        /\ enhanced_ai_service = TRUE
        /\ learning_data_file = <<>>
        /\ tasks = EmptyBag
        /\ last_turn = NoTurn
        /\ cancelled_mid_turn = {}

LateNext ==
    \/ \E s \in SessionIds : Registered(s) /\ Room(s, 1, LateMessages) /\ start_negotiation(s)
    \/ \E s \in SessionIds, m \in SellerTexts :
         Registered(s) /\ Room(s, 2, LateMessages) /\ process_seller_response(s, m)
    \/ \E task \in InFlight : resume_make_negotiation_decision(task)
    \/ \E s \in SessionIds, message_data \in EndRequests :
         handle_session_end_request(s, message_data.outcome, message_data.final_price)
    \/ \E task \in InFlight : resume_save_session(task)

LateSpec == LateInit /\ [][LateNext]_vars

\* ------------------------------------------------------------------------
\* The engine on its own
\*
\* AdvancedNegotiationEngine.process_negotiation_turn called by a caller that
\* keeps the chat history and hands over a session_data dict holding the keys
\* make_decision reads ('target_price', 'max_budget'), followed by the
\* completion scan of the manager on the result.
\* ------------------------------------------------------------------------

\* the log the caller stops at
EngineMessages == 6

\* texts a seller sends to the engine
EngineTexts == {"seller_low_7000", "seller_plain_9000", "seller_flex_9000",
                "seller_min_11000", "seller_maybe_9000", "seller_final_11000",
                "seller_okay_deal"}

EngineInit ==
    /\ now = 1
    /\ \E s \in SessionIds, params \in ParamsChoices, price \in ProductPrices,
       opening_statements \in {<<>>, <<Part("opening_point1", 0)>>} :
        /\ sessions = (s :> [status |-> "active", outcome |-> None, final_price |-> NoInt,
                             ended_at |-> FALSE, user_params |-> params,
                             messages |-> <<>>])
        /\ session_data = (s :> [product |-> [price |-> price, category |-> "electronics"],
                                 strategy |-> [_formulate_initial_strategy(params) EXCEPT
                                     !.talking_points.opening_statements = opening_statements],
                                 phase |-> "opening",
                                 target_price |-> params.target_price,
                                 max_budget |-> params.max_budget])
        /\ active_sessions = {}
        /\ enhanced_ai_service = FALSE
        /\ learning_data_file = <<>>
        /\ tasks = EmptyBag
        /\ last_turn = NoTurn
        /\ cancelled_mid_turn = {}

\* the record of a call of process_negotiation_turn that returned result
EngineResult(s, m, session, result, seller_analysis) ==
    [Step("process_negotiation_turn", s, m, session.status) EXCEPT
        !.engine_invoked = TRUE,
        !.engine_decision = result.decision,
        !.current_price = seller_analysis.price_analysis.current_price,
        !.flexibility_score = seller_analysis.flexibility_score,
        !.phase = result.phase,
        !.action = result.decision.action,
        !.completion = _check_completion_conditions(session, [decision |-> result.decision])]

\* one call of process_negotiation_turn on the seller text m, the caller
\* appending m and the response to the history, then the completion scan
process_negotiation_turn_call(s, m) ==
    \E heard \in {Append(ReadAll(sessions[s].messages), Heard(Read(<<Part(m, 0)>>)))} :
    \E result \in process_negotiation_turn(session_data[s], Read(<<Part(m, 0)>>), heard,
                                           session_data[s].product.price) :
        /\ sessions' = [sessions EXCEPT ![s].messages =
               @ \o <<ChatMessage("seller", <<Part(m, 0)>>, "human"),
                      ChatMessage("ai", result.response, "ai")>>]
        /\ last_turn' = EngineResult(s, m, sessions'[s], result,
                                     analyze_seller_message(Read(<<Part(m, 0)>>), heard))
        /\ now' = now + 1
        /\ UNCHANGED <<session_data, active_sessions, enhanced_ai_service, learning_data_file, tasks,
                       cancelled_mid_turn>>

EngineNext ==
    \E s \in SessionIds, m \in EngineTexts :
        Room(s, 2, EngineMessages) /\ process_negotiation_turn_call(s, m)

EngineSpec == EngineInit /\ [][EngineNext]_vars

\* ------------------------------------------------------------------------
\* The learning log
\*
\* Sessions picked up after 8 answered seller messages, run by a service whose file
\* learning_data.json was written by earlier sessions, and the read query of
\* the LearningEngine on that file.
\* ------------------------------------------------------------------------

\* the file after n earlier sessions, the first `similar` of them on
\* electronics and ended on a walk-away, the others on furniture and ended on a
\* seller who stopped answering; record i was written at time i - n
EarlierLog(n, similar) ==
    [i \in 1..n |->
        LET category == IF i <= similar THEN "electronics" ELSE "furniture"
        IN  learning_record(i - n,
                            [user_params |-> [target_price |-> 8000, max_budget |-> 10000,
                                              approach |-> "diplomatic"]],
                            [product |-> [price |-> 12000, category |-> category]],
                            IF i <= similar THEN "failed_price" ELSE "seller_unresponsive")]

\* the files the service starts with: none, short ones, and files at the cap
\* of 1000 records and one below it
LearningLogs ==
    {EarlierLog(n, similar) : n \in {0, 2, 999, 1000}, similar \in {0, 2}}

LearningInit ==
    /\ now = 1
    /\ learning_data_file \in LearningLogs
    /\ \E s \in SessionIds, params \in ParamsChoices, price \in ProductPrices, k \in {8} :
        /\ sessions = (s :> [status |-> "active", outcome |-> None, final_price |-> NoInt,
                             ended_at |-> FALSE, user_params |-> params,
                             messages |-> LateLog(params, k)])
        /\ session_data = (s :> [product |-> [price |-> price, category |-> "electronics"],
                                 strategy |-> _formulate_initial_strategy(params),
                                 phase |-> "opening",
                                 intervention_triggers |-> <<>>,
                                 performance_metrics |-> [messages_sent |-> k + 1,
                                                          time_to_first_response |-> "set"],
                                 start_time |-> TRUE])
        /\ active_sessions = {s}
        /\ enhanced_ai_service = TRUE
        /\ tasks = EmptyBag
        /\ last_turn = NoTurn
        /\ cancelled_mid_turn = {}

\* one call of get_strategy_recommendations
get_strategy_recommendations_call(category, approach) ==
    /\ last_turn' = [NoTurn EXCEPT
           !.op = "get_strategy_recommendations",
           !.recommendations = [category |-> category, approach |-> approach,
                                result |-> get_strategy_recommendations(
                                               learning_data_file, category, approach)]]
    /\ UNCHANGED <<now, sessions, session_data, active_sessions, enhanced_ai_service,
                   learning_data_file, tasks, cancelled_mid_turn>>

LearningNext ==
    \/ \E s \in SessionIds, m \in {"seller_flex_9000"} :
         Registered(s) /\ Room(s, 2, LateMessages) /\ process_seller_response(s, m)
    \/ \E task \in InFlight : resume_make_negotiation_decision(task)
    \/ \E task \in InFlight : resume_save_session(task)
    \/ /\ last_turn = NoTurn
       /\ \E category \in {"electronics", "furniture", "books"},
             approach \in {"diplomatic", "assertive"} :
            get_strategy_recommendations_call(category, approach)

LearningSpec == LearningInit /\ [][LearningNext]_vars
\* ------------------------------------------------------------------------
\* Two sessions side by side
\* ------------------------------------------------------------------------

\* the bound on the messages of the two sessions together
PairMessages == 4

\* two ids str(uuid.uuid4()) hands out
PairIds == {"s1", "s2"}

\* the logs of the two sessions can take n more messages within the bound
PairRoom(n) ==
    LET Held(s) == IF s \in DOMAIN sessions THEN Len(sessions[s].messages) ELSE 0
    IN  Held("s1") + Held("s2") + n <= PairMessages

PairNext ==
    \/ \E s \in PairIds, params \in ParamsChoices, price \in ProductPrices :
         create_session_from_url(s, params, price, None)
    \/ \E s \in PairIds : Registered(s) /\ PairRoom(1) /\ start_negotiation(s)
    \/ \E s \in PairIds, m \in {"seller_speak_directly", "seller_low_7000"} :
         Registered(s) /\ PairRoom(2) /\ process_seller_response(s, m)
    \/ \E task \in InFlight : resume_make_negotiation_decision(task)
    \/ \E s \in PairIds :
         handle_session_end_request(s, "user_cancelled", NoInt)
    \/ \E task \in InFlight : resume_save_session(task)

PairSpec == Init /\ [][PairNext]_vars

\* ------------------------------------------------------------------------
\* Requests of every kind: well-formed and malformed requests for a session,
\* calls for ids that are not registered, overrides of the user
\* ------------------------------------------------------------------------

\* the bound on the log of a session asked for over HTTP
RequestMessages == 3

RequestNext ==
    \/ \E s \in SessionIds, request \in Requests, price \in ProductPrices :
         start_negotiation_from_url(s, request, price)
    \/ \E s \in SessionIds : (~Registered(s) \/ Room(s, 1, RequestMessages)) /\ start_negotiation(s)
    \/ \E s \in SessionIds, m \in SellerTexts :
         (~Registered(s) \/ Room(s, 2, RequestMessages)) /\ process_seller_response(s, m)
    \/ \E task \in InFlight : resume_make_negotiation_decision(task)
    \/ \E s \in SessionIds, message_data \in EndRequests :
         handle_session_end_request(s, message_data.outcome, message_data.final_price)
    \/ \E task \in InFlight : resume_save_session(task)
    \/ \E s \in SessionIds, content \in OverrideTexts :
         Room(s, 1, RequestMessages) /\ handle_user_override(s, content)

RequestSpec == Init /\ [][RequestNext]_vars

\* ------------------------------------------------------------------------
\* The scenarios: one session and the seller texts of Scenarios A, B and C
\* ------------------------------------------------------------------------

\* the bound on the log of the session of a scenario
ScenarioMessages == 5

ScenarioNext ==
    \/ \E s \in SessionIds, params \in ParamsChoices, price \in ProductPrices :
         create_session_from_url(s, params, price, None)
    \/ \E s \in SessionIds :
         Registered(s) /\ Room(s, 1, ScenarioMessages) /\ start_negotiation(s)
    \/ \E s \in SessionIds, m \in ScenarioTexts :
         Registered(s) /\ Room(s, 2, ScenarioMessages) /\ process_seller_response(s, m)
    \/ \E task \in InFlight : resume_make_negotiation_decision(task)
    \/ \E task \in InFlight : resume_save_session(task)

ScenarioSpec == Init /\ [][ScenarioNext]_vars

\* ------------------------------------------------------------------------
\* The decision table and the tactic selector on their own
\*
\* DecisionEngine.make_decision and StrategySelector.select_tactics are
\* functions of session_data, the analysis and the phase; they are called
\* here on analyses of every kind the analyzer returns.
\* ------------------------------------------------------------------------

\* analyses of the analyzer: the flexibility scores _assess_flexibility returns
\* for up to two high and two low indicators; price_analysis['current_price']
\* is None or a price around the target and the budget
Analyses ==
    [flexibility_score : {Max(0, Min(100, 50 + 20 * h - 30 * l + FloatResidue(h, l))) :
                             h \in 0..2, l \in 0..2},
     urgency_level     : {"high", "medium"},
     personality       : {"flexible", "firm", "eager", "hesitant"},
     price_analysis    : {[current_price |-> p, previous_prices |-> <<>>, trend |-> "stable"] :
                          p \in {NoInt, SomeInt(7000), SomeInt(8008), SomeInt(9000),
                                 SomeInt(9499), SomeInt(9500), SomeInt(10000), SomeInt(11000)}},
     objections        : {{}, {"price_too_low"}}]

\* NegotiationPhase
Phases == {"opening", "exploration", "bargaining", "closing", "deadlock"}

\* a started session whose session_data holds target_price and max_budget:
\* the scenario's, a target whose tenth part is not whole, and a target near
\* the budget
TableInit ==
    /\ now = 1
    /\ \E s \in SessionIds, price \in ProductPrices,
          params \in {[target_price |-> 8000, max_budget |-> 10000, approach |-> "diplomatic"],
                      [target_price |-> 8008, max_budget |-> 10000, approach |-> "diplomatic"],
                      [target_price |-> 9500, max_budget |-> 10000, approach |-> "diplomatic"]} :
        /\ sessions = (s :> [status |-> "active", outcome |-> None, final_price |-> NoInt,
                             ended_at |-> FALSE, user_params |-> params,
                             messages |-> <<>>])
        /\ session_data = (s :> [product |-> [price |-> price, category |-> "electronics"],
                                 strategy |-> _formulate_initial_strategy(params),
                                 phase |-> "opening",
                                 target_price |-> params.target_price,
                                 max_budget |-> params.max_budget])
    /\ active_sessions = {}
    /\ enhanced_ai_service = FALSE
    /\ learning_data_file = <<>>
    /\ tasks = EmptyBag
    /\ last_turn = NoTurn
    /\ cancelled_mid_turn = {}

\* one call of make_decision
make_decision_call(s, seller_analysis, phase) ==
    /\ last_turn' = [Step("make_decision", s, "empty", sessions[s].status) EXCEPT
           !.engine_invoked = TRUE,
           !.engine_decision = make_decision(session_data[s], seller_analysis, phase,
                                             session_data[s].product.price),
           !.current_price = seller_analysis.price_analysis.current_price,
           !.flexibility_score = seller_analysis.flexibility_score,
           !.phase = phase,
           !.seller_analysis = seller_analysis]
    /\ UNCHANGED <<sessions, session_data, active_sessions, enhanced_ai_service, learning_data_file, tasks,
                   cancelled_mid_turn, now>>

\* one call of select_tactics; it does not read the decision
select_tactics_call(s, seller_analysis, phase) ==
    /\ last_turn' = [Step("select_tactics", s, "empty", sessions[s].status) EXCEPT
           !.flexibility_score = seller_analysis.flexibility_score,
           !.phase = phase,
           !.seller_analysis = seller_analysis,
           !.tactics_used = select_tactics(Decision(None, NoInt, 0), seller_analysis, phase)]
    /\ UNCHANGED <<sessions, session_data, active_sessions, enhanced_ai_service, learning_data_file, tasks,
                   cancelled_mid_turn, now>>

\* each behaviour is one call on the session as created
\* texts of the seller late in a conversation: a price, and none
LateTexts == {"seller_flex_9000", "seller_okay_deal"}

\* the logs of sessions with an enhanced AI service after 5 seller messages
\* with a price and up to 2 more of any kind, each answered by the LangChain
\* agent
LateLogs(params) ==
    {LateLog(params, 5)}
    \cup {LateLog(params, 5)
          \o <<ChatMessage("seller", <<Part(m1, 0)>>, "human"),
               ChatMessage("ai", <<Part("llm_offer", params.target_price)>>, "ai")>> :
          m1 \in LateTexts}
    \cup {LateLog(params, 5)
          \o <<ChatMessage("seller", <<Part(m1, 0)>>, "human"),
               ChatMessage("ai", <<Part("llm_offer", params.target_price)>>, "ai"),
               ChatMessage("seller", <<Part(m2, 0)>>, "human"),
               ChatMessage("ai", <<Part("llm_offer", params.target_price)>>, "ai")>> :
          m1 \in LateTexts, m2 \in LateTexts}

\* process_seller_response from the append of the seller message to the
\* return of _check_intervention_triggers, on a session whose log is messages
_check_intervention_triggers_call(s, messages, m) ==
    /\ sessions' = [sessions EXCEPT ![s].messages =
                       Append(messages, ChatMessage("seller", <<Part(m, 0)>>, "human"))]
    /\ last_turn' = [Step("_check_intervention_triggers", s, m, sessions[s].status) EXCEPT
           !.intervention = _check_intervention_triggers(
                                Append(ReadAll(messages), Heard(Read(<<Part(m, 0)>>))),
                                Read(<<Part(m, 0)>>))]
    /\ UNCHANGED <<session_data, active_sessions, enhanced_ai_service, learning_data_file, tasks,
                   cancelled_mid_turn, now>>

TableNext ==
    \/ /\ last_turn = NoTurn
       /\ \E s \in SessionIds, seller_analysis \in Analyses, phase \in Phases :
            make_decision_call(s, seller_analysis, phase)
    \/ /\ last_turn = NoTurn
       /\ \E s \in SessionIds, seller_analysis \in Analyses, phase \in Phases :
            select_tactics_call(s, seller_analysis, phase)
    \/ /\ last_turn = NoTurn
       /\ \E s \in SessionIds, m \in SellerTexts \cup LateTexts :
            \E messages \in LateLogs(sessions[s].user_params) :
                _check_intervention_triggers_call(s, messages, m)

TableSpec == TableInit /\ [][TableNext]_vars

\* ------------------------------------------------------------------------
\* Properties
\*
\* last_turn is the record of the step that led to the state, so a state
\* predicate over last_turn speaks of the state right after that step.
\* ------------------------------------------------------------------------

\* NegotiationParams of the session of the latest step
TurnParams == sessions[last_turn.sid].user_params

\* the latest step ran the engine on a seller message that carries a price
PricedTurn == last_turn.engine_invoked /\ last_turn.current_price # NoInt

\* C1: in every turn on a session with 0 < target_price <= max_budget, a
\* decision with action counter_offer or final_offer carries an offer with
\* target_price <= offer <= max_budget.
C1_OfferWithinTargetAndBudget ==
    (/\ last_turn.engine_invoked
     /\ last_turn.engine_decision.action \in {"counter_offer", "final_offer"}
     /\ 0 < TurnParams.target_price
     /\ TurnParams.target_price <= TurnParams.max_budget)
    => /\ last_turn.engine_decision.offer # NoInt
       /\ TurnParams.target_price <= last_turn.engine_decision.offer[1]
       /\ last_turn.engine_decision.offer[1] <= TurnParams.max_budget

\* the status graph: INITIALIZING -> ACTIVE -> {HUMAN_HANDOFF, COMPLETED,
\* FAILED, CANCELLED}, and CANCELLED from any status that is not terminal
StatusGraph(before, after) ==
    \/ before = "initializing" /\ after = "active"
    \/ before = "active" /\ after \in {"human_handoff", "completed", "failed", "cancelled"}
    \/ before \in {"initializing", "active", "human_handoff"} /\ after = "cancelled"

\* C2: every change of a session's status follows the status graph; none
\* leaves COMPLETED, FAILED or CANCELLED and none skips ACTIVE.
C2_StatusFollowsGraph ==
    [][\A s \in DOMAIN sessions :
          sessions'[s].status # sessions[s].status
          => StatusGraph(sessions[s].status, sessions'[s].status)]_vars

\* C3: while a turn of session s is in flight (between appending the seller
\* message and committing its result), no other process_seller_response call
\* for s reads or writes the session.
C3_OneTurnPerSession ==
    [][\A s \in SessionIds :
          TurnInFlight(s)
          => ~(/\ last_turn'.op = "process_seller_response"
               /\ last_turn'.sid = s
               /\ sessions' # sessions)]_vars

\* the step resumes a turn of s that was suspended when s was ended
StaleTurnResumes(s) ==
    /\ last_turn'.op = "resume_make_negotiation_decision"
    /\ last_turn'.sid = s
    /\ Task("turn", s, "await_ai", last_turn'.seller_message) \in cancelled_mid_turn
    /\ sessions' # sessions

\* C4: when a turn that was suspended while its session was cancelled
\* resumes, its result changes neither the status nor the outcome: the
\* session stays CANCELLED with the outcome of the cancellation.
C4_StaleTurnLeavesCancelled ==
    [][\A s \in DOMAIN sessions :
          (sessions[s].status = "cancelled" /\ StaleTurnResumes(s))
          => /\ sessions'[s].status = "cancelled"
             /\ sessions'[s].outcome = sessions[s].outcome]_vars

\* C5: once a session is COMPLETED, no later or interleaved operation changes
\* its status, outcome or final_price.
C5_CompletionIrreversible ==
    [][\A s \in DOMAIN sessions :
          sessions[s].status = "completed"
          => /\ sessions'[s].status = sessions[s].status
             /\ sessions'[s].outcome = sessions[s].outcome
             /\ sessions'[s].final_price = sessions[s].final_price]_vars

\* C6: in every state of every session, final_price is set only if the
\* outcome is SUCCESS.
C6_FinalPriceOnlyOnSuccess ==
    \A s \in DOMAIN sessions :
        sessions[s].final_price # NoInt => sessions[s].outcome = "success"

\* C7: in every turn whose seller message carries a price p <= target_price,
\* the decision action is ACCEPT.
C7_AcceptAtOrBelowTarget ==
    (PricedTurn /\ last_turn.current_price[1] <= TurnParams.target_price)
    => last_turn.engine_decision.action = "accept"

\* the latest step ran the engine on a seller price above the budget with a
\* flexibility score of at most 0.7
OverBudgetFirm ==
    /\ PricedTurn
    /\ last_turn.current_price[1] > TurnParams.max_budget
    /\ last_turn.flexibility_score <= 70

MatchesTrigger(m) ==
    _check_intervention_triggers(<<>>, Read(<<Part(m, 0)>>)) # None

\* the log of session s ends with the seller message m and one handoff message
EndsWithHandoff(s, m) ==
    LET messages == sessions[s].messages
    IN  /\ Len(messages) >= 2
        /\ messages[Len(messages) - 1].sender = "seller"
        /\ messages[Len(messages) - 1].content = <<Part(m, 0)>>
        /\ messages[Len(messages) - 1].sender_type = "human"
        /\ messages[Len(messages)].sender_type = "handoff"

\* C9: whenever a seller message matches an intervention trigger, the turn
\* computes no decision, the status becomes HUMAN_HANDOFF, and one canned
\* handoff message and no agent reply follows the seller message in the log.
C9_TriggerShortCircuitsTurn ==
    (last_turn.op = "process_seller_response" /\ MatchesTrigger(last_turn.seller_message))
    => /\ ~last_turn.engine_invoked
       /\ sessions[last_turn.sid].status = "human_handoff"
       /\ EndsWithHandoff(last_turn.sid, last_turn.seller_message)

\* C10: a seller message on a session in HUMAN_HANDOFF computes no decision,
\* appends no agent reply and does not complete the session.
C10_HandoffStopsProcessing ==
    (last_turn.op # "none" /\ last_turn.status_before = "human_handoff")
    => /\ ~last_turn.engine_invoked
       /\ last_turn.action = None
       /\ last_turn.completion = None
       /\ sessions[last_turn.sid].messages[Len(sessions[last_turn.sid].messages)].sender_type
              # "ai"


C12_NoTurnBeyondTwentyOneMessages ==
    \A s \in DOMAIN sessions :
        (/\ last_turn.sid = s
         /\ last_turn.op \in {"process_seller_response", "resume_make_negotiation_decision"}
         /\ last_turn.intervention = None
         /\ "start_time" \in DOMAIN session_data[s])
        => Len(sessions[s].messages) <= 21

\* C13: a process_seller_response call that arrives for a session already
\* mid-turn is rejected at once: it appends no message to the log, and no
\* second turn is begun, queued or suspended beside the first.
C13_SecondTurnRejectedBusy ==
    [][\A s \in SessionIds :
          (TurnInFlight(s) /\ \E m \in SellerTexts : process_seller_response(s, m))
          => /\ sessions'[s].messages = sessions[s].messages
             /\ tasks' = tasks]_vars

\* the messages a step appended to the log of s
Appended(s) ==
    SubSeq(sessions'[s].messages, Len(sessions[s].messages) + 1, Len(sessions'[s].messages))

\* C14: when an error escapes from a turn of a registered session, the
\* session leaves the turn FAILED with outcome TECHNICAL_ERROR, its log has
\* grown by exactly one system message, and the session is still registered.
C14_EscapedErrorFailsSession ==
    [][\A s \in DOMAIN sessions :
          (last_turn'.error # None /\ last_turn'.sid = s /\ Registered(s))
          => /\ sessions'[s].status = "failed"
             /\ sessions'[s].outcome = "technical_error"
             /\ Len(sessions'[s].messages) >= Len(sessions[s].messages)
             /\ SubSeq(sessions'[s].messages, 1, Len(sessions[s].messages)) = sessions[s].messages
             /\ Cardinality({i \in DOMAIN Appended(s) : Appended(s)[i].sender = "system"}) = 1
             /\ \A i \in DOMAIN Appended(s) :
                    Appended(s)[i].sender = "system" => Appended(s)[i].sender_type = "error"
             /\ s \in active_sessions']_vars

C14_Witness ==
    \E s \in active_sessions :
        /\ last_turn.error # None
        /\ last_turn.sid = s
        /\ sessions[s].status = "failed"
        /\ sessions[s].messages # <<>>

\* the step is a turn of s whose reply is the text of the except branch of
\* process_negotiation_turn: composing the reply raised
CompositionFailed(s) ==
    /\ last_turn'.op = "process_negotiation_turn"
    /\ last_turn'.sid = s
    /\ Len(sessions'[s].messages) = Len(sessions[s].messages) + 2
    /\ sessions'[s].messages[Len(sessions'[s].messages)].content = TurnFallback.response

FailureIn(a) ==
    /\ sessions'[a] # sessions[a]
    /\ sessions'[a].status \in {"failed", "human_handoff", "completed", "cancelled"}

\* C17: a step in which session a fails, is handed off, completed or
\* cancelled leaves every other session b as it was: its messages, status,
\* outcome and final_price, its phase and its place in the registry.
C17_FailureLeavesOthersUnchanged ==
    [][\A a \in DOMAIN sessions : \A b \in DOMAIN sessions \ {a} :
          FailureIn(a)
          => /\ sessions'[b] = sessions[b]
             /\ session_data'[b].phase = session_data[b].phase
             /\ (b \in active_sessions') = (b \in active_sessions)]_vars

C17_Witness ==
    \E a \in DOMAIN sessions : \E b \in DOMAIN sessions \ {a} :
        /\ last_turn.sid = a
        /\ last_turn.error # None
        /\ sessions[a].status = "failed"
        /\ sessions[b].status = "active"
        /\ b \in active_sessions

\* the step is a call of start_negotiation or process_seller_response for s
NotFoundCall(s) ==
    \/ start_negotiation(s)
    \/ \E m \in SellerTexts : process_seller_response(s, m)

\* C18: start_negotiation or process_seller_response called with an id that
\* is not in the registry ends in a not-found error and changes no session,
\* no session data and no registry entry.
C18_UnknownIdChangesNothing ==
    [][\A s \in SessionIds :
          (~Registered(s) /\ NotFoundCall(s))
          => /\ last_turn'.error = "ValueError"
             /\ sessions' = sessions
             /\ session_data' = session_data
             /\ active_sessions' = active_sessions
             /\ tasks' = tasks]_vars

C18_Witness ==
    \E s \in DOMAIN sessions :
        /\ s \notin active_sessions
        /\ last_turn.sid = s
        /\ last_turn.op = "start_negotiation"
        /\ last_turn.error = "ValueError"

\* C19: the log of a session is append-only: in every step, whatever the
\* operation, the log before the step is a prefix of the log after it.
C19_MessagesAppendOnly ==
    [][\A s \in DOMAIN sessions :
          /\ Len(sessions'[s].messages) >= Len(sessions[s].messages)
          /\ SubSeq(sessions'[s].messages, 1, Len(sessions[s].messages))
                = sessions[s].messages]_vars

C19_Witness ==
    \E s \in DOMAIN sessions :
        /\ Len(sessions[s].messages) >= 3
        /\ sessions[s].messages[1].sender = "ai"
        /\ sessions[s].messages[2].sender_type = "override"
        /\ sessions[s].status = "cancelled"

\* C20: in every reachable state the timestamps of the messages of every
\* session are non-decreasing along its log, also when turns, overrides and
\* error handling of one session interleave.
C20_TimestampsNonDecreasing ==
    \A s \in DOMAIN sessions :
        \A i \in 1..(Len(sessions[s].messages) - 1) :
            sessions[s].messages[i].timestamp <= sessions[s].messages[i + 1].timestamp

C20_Witness ==
    \E s \in DOMAIN sessions :
        /\ Len(sessions[s].messages) >= 3
        /\ sessions[s].messages[1].timestamp < sessions[s].messages[Len(sessions[s].messages)].timestamp
        /\ \E i \in DOMAIN sessions[s].messages : sessions[s].messages[i].sender_type = "error"
        /\ \E i \in DOMAIN sessions[s].messages : sessions[s].messages[i].sender_type = "override"

\* C21: in every state of every session, outcome is set only while the
\* status is COMPLETED, FAILED or CANCELLED; no session is INITIALIZING,
\* ACTIVE, PAUSED or HUMAN_HANDOFF with an outcome set.
C21_OutcomeOnlyWhenTerminal ==
    \A s \in DOMAIN sessions :
        sessions[s].outcome # None
        => sessions[s].status \in {"completed", "failed", "cancelled"}

\* the latest step ran the engine on seller text m in a started session with
\* target 8000, budget 10000 and listed price 12000
ScenarioTurn(m) ==
    /\ last_turn.engine_invoked
    /\ last_turn.seller_message = m
    /\ last_turn.status_before = "active"
    /\ TurnParams \in ParamsChoices
    /\ session_data[last_turn.sid].product.price = 12000

C23_ScenarioBCounterOffer ==
    ScenarioTurn("seller_maybe_9000")
    => /\ last_turn.current_price = SomeInt(9000)
       /\ last_turn.engine_decision.action = "counter_offer"
       /\ last_turn.engine_decision.offer # NoInt
       /\ 8000 <= last_turn.engine_decision.offer[1]
       /\ last_turn.engine_decision.offer[1] < 9000

PipelineRuns(s, m) ==
    process_negotiation_turn(session_data[s], Read(<<Part(m, 0)>>),
                             Append(ReadAll(sessions[s].messages), Heard(Read(<<Part(m, 0)>>))),
                             session_data[s].product.price)

\* C25: two runs of the pipeline on the same session state and the same
\* seller message give the same action and the same offer, whatever random
\* choices the composition of the reply makes.
C25_DecisionDeterministic ==
    \A s \in DOMAIN sessions : \A m \in EngineTexts :
        \A first, second \in PipelineRuns(s, m) :
            /\ first.decision.action = second.decision.action
            /\ first.decision.offer = second.decision.offer

\* after a turn, some seller message has two runs that differ in the reply
\* and agree on an offer
C25_Witness ==
    \E s \in DOMAIN sessions : \E m \in EngineTexts :
        /\ last_turn.engine_invoked
        /\ Len(sessions[s].messages) >= 2
        /\ \E first, second \in PipelineRuns(s, m) :
              /\ first.response # second.response
              /\ first.decision.offer # NoInt
              /\ first.decision = second.decision

\* the text of a message contains the word, as `word in content.lower()`
Says(msg, word) == ContainsScan(lower(ExpandText(msg.content)), word)

\* one of the last three messages of the history says 'final' or 'last'
SaysFinalOrLast(history) ==
    \E i \in DOMAIN LastN(history, 3) :
        \/ Says(LastN(history, 3)[i], <<"f","i","n","a","l">>)
        \/ Says(LastN(history, 3)[i], <<"l","a","s","t">>)

\* one of the last three messages of the history mentions a price
MentionsPrice(history) ==
    \E i \in DOMAIN LastN(history, 3) :
        \/ Says(LastN(history, 3)[i], <<"p","r","i","c","e">>)
        \/ Says(LastN(history, 3)[i], <<"₹">>)

\* the five ordered rules of the phase, first match wins
FiveRules(history, flexibility) ==
    IF Len(history) <= 2 /\ ~SaysFinalOrLast(history) /\ ~MentionsPrice(history) THEN "opening"
    ELSE IF SaysFinalOrLast(history) THEN "closing"
    ELSE IF flexibility < 20 /\ Len(history) > 6 THEN "deadlock"
    ELSE IF MentionsPrice(history) /\ Len(history) > 3 THEN "bargaining"
    ELSE "exploration"

\* the history the engine was given in the latest call: the log without the
\* reply the call has produced
HistoryOfTurn ==
    SubSeq(sessions[last_turn.sid].messages, 1, Len(sessions[last_turn.sid].messages) - 1)

\* C26: the phase computed in a turn is the one the five ordered rules give
\* for the message history and the analyzer's flexibility score of that turn.
C26_PhaseFollowsFiveRules ==
    (/\ last_turn.op = "process_negotiation_turn"
     /\ last_turn.engine_decision.action # "pause")
    => last_turn.phase = FiveRules(HistoryOfTurn, last_turn.flexibility_score)

\* the seller message of the latest step, which is the last message of the
\* history the engine is given for it
SellerMessageOfTurn == <<[content |-> <<Part(last_turn.seller_message, 0)>>]>>

\* C27: whenever one of the last three messages says 'final' or 'last', the
\* phase computed for the turn is CLOSING, also when it is the seller's first
\* message, as in Scenario A ('My final price is 11000').
C27_FinalOrLastGivesClosing ==
    (last_turn.engine_invoked /\ SaysFinalOrLast(SellerMessageOfTurn))
    => last_turn.phase = "closing"

\* the latest step ran the decision engine on a seller price above the target
\* and within the budget
WithinBudgetTurn ==
    /\ PricedTurn
    /\ TurnParams.target_price < last_turn.current_price[1]
    /\ last_turn.current_price[1] <= TurnParams.max_budget

\* C28: for a seller price with target_price < price <= max_budget, a
\* flexibility of at most 0.6 gives ACCEPT_WITH_CONDITIONS with confidence 0.6
\* when price < 0.95 * max_budget and CONTINUE with confidence 0.5 otherwise,
\* and a flexibility above 0.6 gives COUNTER_OFFER.
C28_WithinBudgetBranches ==
    WithinBudgetTurn
    => IF last_turn.flexibility_score > 60
       THEN last_turn.engine_decision.action = "counter_offer"
       ELSE IF 100 * last_turn.current_price[1] < 95 * TurnParams.max_budget
       THEN /\ last_turn.engine_decision.action = "accept_with_conditions"
            /\ last_turn.engine_decision.confidence = 60
       ELSE /\ last_turn.engine_decision.action = "continue"
            /\ last_turn.engine_decision.confidence = 50

\* round(n / d) for positive n and d when n / d is not halfway between two
\* integers
RoundNearest(n, d) == (2 * n + d) \div (2 * d)

\* C29: for a seller price above max_budget with flexibility above 0.7 the
\* decision is FINAL_OFFER with confidence 0.4 and
\* offer = min(max_budget, round(1.1 * target_price)), the nearest integer.
C29_FinalOfferRoundsToNearest ==
    (/\ PricedTurn
     /\ last_turn.current_price[1] > TurnParams.max_budget
     /\ last_turn.flexibility_score > 70)
    => /\ last_turn.engine_decision.action = "final_offer"
       /\ last_turn.engine_decision.confidence = 40
       /\ last_turn.engine_decision.offer
              = SomeInt(Min(TurnParams.max_budget,
                            RoundNearest(11 * TurnParams.target_price, 10)))

\* the fixed vocabulary of eight tactics
TacticVocabulary ==
    {"anchoring", "scarcity", "bundling", "reciprocity", "authority", "social_proof",
     "commitment", "urgency"}

\* the candidate tactics of a phase, in candidate order
Candidates(phase, analysis) ==
    CASE phase = "opening" ->
             IF analysis.urgency_level = "high" THEN <<"anchoring", "urgency">>
             ELSE <<"anchoring">>
      [] phase = "bargaining" ->
             SelectSeq(<<"reciprocity", "social_proof">>,
                       LAMBDA t : \/ t = "reciprocity" /\ analysis.flexibility_score > 60
                                  \/ t = "social_proof" /\ "price_too_low" \in analysis.objections)
      [] phase = "closing" ->
             IF analysis.urgency_level = "high" THEN <<"commitment", "scarcity">>
             ELSE <<"commitment">>
      [] phase = "deadlock" -> <<"bundling", "authority">>
      [] OTHER -> <<>>

\* the candidates whose effectiveness for the personality is above 0.4
Effective(candidates, personality) ==
    SelectSeq(candidates, LAMBDA t : tactic_effectiveness(t, personality) > 40)

\* C30: the tactic list of a turn is the phase's candidates, in candidate
\* order, restricted to those with effectiveness above 0.4 for the detected
\* personality and cut to at most 3; every tactic is of the vocabulary of
\* eight, and the candidates of DEADLOCK are BUNDLING then AUTHORITY.
C30_TacticsFilteredAndCapped ==
    last_turn.op = "select_tactics"
    => /\ last_turn.tactics_used
              = SubSeq(Effective(Candidates(last_turn.phase, last_turn.seller_analysis),
                                 last_turn.seller_analysis.personality),
                       1,
                       Min(3, Len(Effective(Candidates(last_turn.phase, last_turn.seller_analysis),
                                            last_turn.seller_analysis.personality))))
       /\ Len(last_turn.tactics_used) <= 3
       /\ \A i \in DOMAIN last_turn.tactics_used :
              /\ last_turn.tactics_used[i] \in TacticVocabulary
              /\ tactic_effectiveness(last_turn.tactics_used[i],
                                      last_turn.seller_analysis.personality) > 40

\* the selector has kept COMMITMENT and dropped SCARCITY, whose effectiveness
\* for a firm seller is 0.3
C30_Witness ==
    /\ last_turn.op = "select_tactics"
    /\ last_turn.phase = "closing"
    /\ last_turn.seller_analysis.personality = "firm"
    /\ last_turn.seller_analysis.urgency_level = "high"
    /\ last_turn.tactics_used = <<"commitment">>

\* every price extracted from the log of session s, in order
ExtractedPrices(s) == _extract_recent_prices(ReadAll(sessions[s].messages))

\* the log of s holds more than 12 messages, and the last 6 prices extracted
\* from it are there and are all identical
TwelveMessagesSixEqualPrices(s) ==
    /\ Len(sessions[s].messages) > 12
    /\ Len(ExtractedPrices(s)) >= 6
    /\ Cardinality(SeqToSet(LastN(ExtractedPrices(s), 6))) = 1

\* C31: the DEADLOCK intervention fires in a turn exactly when no trigger
\* listed before it matches, the log holds more than 12 messages and the last
\* 6 extracted prices are all identical.
C31_DeadlockExactlyOnSixEqualPrices ==
    last_turn.op = "_check_intervention_triggers"
    => (last_turn.intervention = "deadlock"
        <=> /\ TwelveMessagesSixEqualPrices(last_turn.sid)
            /\ ~AnyIn(seller_request_phrases, Read(<<Part(last_turn.seller_message, 0)>>))
            /\ ~AnyIn(complex_terms_phrases, Read(<<Part(last_turn.seller_message, 0)>>)))

\* the prices of the seller messages that came before the turn of the latest
\* step, which has appended the seller message and the reply
EarlierSellerPrices ==
    LET messages == sessions[last_turn.sid].messages
    IN  _extract_recent_prices(
            ReadAll(BySender(SubSeq(messages, 1, Len(messages) - 2), "seller")))

\* C32: in a turn the analyzer's price trend compares the price of the new
\* seller message with the latest price of the earlier seller messages:
\* decreasing when lower, increasing when higher, stable when equal or when
\* there is no earlier price.
C32_TrendAgainstEarlierPrice ==
    (last_turn.op = "process_seller_response" /\ PricedTurn)
    => last_turn.seller_analysis.price_analysis.trend
           = IF Len(EarlierSellerPrices) = 0 THEN "stable"
             ELSE IF last_turn.current_price[1] < EarlierSellerPrices[Len(EarlierSellerPrices)]
             THEN "decreasing"
             ELSE IF last_turn.current_price[1] > EarlierSellerPrices[Len(EarlierSellerPrices)]
             THEN "increasing"
             ELSE "stable"

\* a session as create_session_from_url leaves it: registered, INITIALIZING,
\* with an empty log
FreshSession(s) ==
    /\ Registered(s)
    /\ sessions[s].status = "initializing"
    /\ sessions[s].messages = <<>>

\* C33: start_negotiation on a freshly created (INITIALIZING) session sets its
\* status to ACTIVE and appends exactly one agent message to the empty log; the
\* session gets no outcome, is not failed and stays in the registry
C33_StartActivatesWithOneOpeningMessage ==
    [][\A s \in SessionIds :
          (FreshSession(s) /\ start_negotiation(s)) =>
              /\ sessions'[s].status = "active"
              /\ Len(sessions'[s].messages) = 1
              /\ sessions'[s].messages[1].sender = "ai"
              /\ sessions'[s].outcome = None
              /\ sessions'[s].ended_at = FALSE
              /\ s \in active_sessions']_vars

\* a started session whose log is the opening message alone
C33_Witness ==
    \E s \in active_sessions :
        /\ sessions[s].status = "active"
        /\ Len(sessions[s].messages) = 1
        /\ sessions[s].messages[1].sender = "ai"

\* the records of learning_data written by the sessions of this run, and
\* those written by earlier sessions
NewRecords(learning_data) == SelectSeq(learning_data, LAMBDA r : r.timestamp > 0)
OldRecords(learning_data) == SelectSeq(learning_data, LAMBDA r : r.timestamp <= 0)

\* C34: each completed session has appended exactly one record to the learning
\* log; the log never holds more than 1000 records; and what is left of the
\* earlier records after the oldest were dropped is followed by the new ones,
\* all in the order of their append
C34_OneRecordPerCompletedSession ==
    LET new == NewRecords(learning_data_file)
        old == OldRecords(learning_data_file)
    IN  /\ Len(new) = Cardinality({s \in DOMAIN sessions : sessions[s].status = "completed"})
        /\ Len(learning_data_file) <= 1000
        /\ learning_data_file = old \o new
        /\ \A i \in 1..Len(old) : old[i].timestamp = i - Len(old)
        /\ \A i \in 1..(Len(new) - 1) : new[i].timestamp < new[i + 1].timestamp

\* the turn of last_turn ran _complete_session
CompletingTurn ==
    /\ last_turn.op \in {"process_seller_response", "resume_make_negotiation_decision"}
    /\ last_turn.completion # None
    /\ last_turn.error = None

\* C35: the record appended when a session completes carries the tactics used
\* in the session: every tactic of the turn that completed it is in the
\* tactics_used of the record
C35_RecordCarriesTacticsUsed ==
    CompletingTurn =>
        \A i \in 1..Len(last_turn.tactics_used) :
            last_turn.tactics_used[i]
                \in SeqToSet(learning_data_file[Len(learning_data_file)].tactics_used)

\* the records of learning_data for (category, approach)
Matching(learning_data, category, approach) ==
    SelectSeq(learning_data, LAMBDA r : r.product_category = category
                                        /\ r.negotiation_approach = approach)

\* C36: the read query for (category, approach) returns, whenever a record
\* matches, the rate successful / matching (0 when none succeeded), at most 3
\* tactics, all taken from the successful matching records, and a confidence
\* of at most 1 that is not below the confidence returned for a file with
\* fewer matching records
C36_QueryReportsHistoricalSuccessRate ==
    last_turn.op = "get_strategy_recommendations" =>
        LET query == last_turn.recommendations
            matching == Matching(learning_data_file, query.category, query.approach)
            successful == SelectSeq(matching, LAMBDA r : r.outcome = "success")
        IN  /\ Len(matching) > 0 =>
                /\ query.result.success_rate[1] * Len(matching)
                       = Len(successful) * query.result.success_rate[2]
                /\ Len(query.result.recommended_tactics) <= 3
                /\ \A i \in 1..Len(query.result.recommended_tactics) :
                       \E j \in 1..Len(successful) :
                           query.result.recommended_tactics[i]
                               \in SeqToSet(successful[j].tactics_used)
            /\ query.result.confidence <= 10
            /\ \A log \in LearningLogs :
                   Len(Matching(log, query.category, query.approach)) < Len(matching) =>
                       get_strategy_recommendations(log, query.category,
                                                    query.approach).confidence
                           <= query.result.confidence

\* C37: in every turn in which the Decision Engine ran, the target_price and
\* max_budget make_decision reads from the session's session_data are those of
\* the session's NegotiationParams
C37_EngineEvaluatesSessionParams ==
    (last_turn.engine_invoked /\ last_turn.sid \in DOMAIN session_data) =>
        /\ DictGet(session_data[last_turn.sid], "target_price", 0) = TurnParams.target_price
        /\ DictGet(session_data[last_turn.sid], "max_budget", 0) = TurnParams.max_budget

\* C38: no step appends a message to the log of a session whose status is
\* COMPLETED, FAILED or CANCELLED
C38_NoMessageAfterTerminalStatus ==
    [][\A s \in DOMAIN sessions :
          sessions[s].status \in {"completed", "failed", "cancelled"} =>
              sessions'[s].messages = sessions[s].messages]_vars

\* C39: a seller message processed for a registered session that is still
\* INITIALIZING does not leave the session FAILED
C39_SellerMessageBeforeStartDoesNotFail ==
    (/\ last_turn.op = "process_seller_response"
     /\ last_turn.status_before = "initializing")
        => sessions[last_turn.sid].status # "failed"

\* C40: when create_session_from_url has raised, whichever call failed, the
\* new session id is not in the registry
C40_FailedCreateLeavesNoRegistryEntry ==
    (last_turn.op = "create_session_from_url" /\ last_turn.error # None)
        => last_turn.sid \notin active_sessions
====
